---- MODULE Spec2Model ----
(***************************************************************************)
(* A model of the kono API gateway's request pipeline: the per-upstream    *)
(* caller (retry loop, circuit breaker), the dispatcher, the aggregator,   *)
(* the router's status selection and the fixed-window rate limiter.        *)
(***************************************************************************)
EXTENDS Integers, Sequences, FiniteSets, TLC

VARIABLES
    now,        \* the wall clock (time.Now), in ticks
    policy,     \* per upstream: the compiled Policy and breaker configuration
    cb,         \* per upstream: the CircuitBreaker's fields
    target,     \* per caller: the upstream whose Call it runs (0: the caller is unused)
    pc,         \* per caller: position inside httpUpstream.Call
    attempt,    \* per caller: the loop variable `attempt`
    ctxDone,    \* per caller: whether ctx.Done() is closed
    resp,       \* per caller: the local variable `resp`
    ret,        \* per caller: the value Call returned (NoResp before it returns)
    calls,      \* number of Calls started so far, over all callers
    hits,       \* per caller: HTTP attempts performed by the current Call
    stopped,    \* per caller: an attempt of the current Call met the stop condition
    stopResp,   \* per caller: the response of that attempt
    streak,     \* per upstream: consecutive attempts ended in a breaker-failure kind
    lastFailEnd, \* per upstream: time at which the last such attempt ended
    maxParallel, \* flow.MaxParallelUpstreams
    dstate,     \* the dispatch: "idle", "running" or "returned"
    reqDone,    \* whether the request's context is canceled
    task,       \* per upstream of the flow: "waiting", "running" or "finished"
    sem,        \* number of semaphore slots held
    results,    \* the dispatcher's result slots
    returned,   \* what dispatch returned (<<>> before it returns)
    limit,      \* RateLimit.limit
    window,     \* RateLimit.window
    buckets,    \* RateLimit.buckets: per key, whether present, count and resetAt
    allowed,    \* the last Allow call: its key and what it returned
    winCount,   \* per key: calls admitted in the running fixed window
    shadow,     \* the buckets of the same Allow calls had cleanup never run
    winEnd,     \* per key: the instant the running fixed window ends (-1: none yet)
    responses,  \* what dispatch handed to the Router
    aggregation, \* matchedFlow.Aggregation
    srv,        \* the request: "ready" or "done"
    path,       \* the way the request took through ServeHTTP
    aggregated, \* what aggregate returned (or that it panicked)
    status,     \* the status ServeHTTP chose after aggregation (0: none)
    responseBody, \* the envelope ServeHTTP built after aggregation
    written,    \* what the client received: status code and envelope
    upHeaders,  \* per response: UpstreamResponse.Headers
    outHeader,  \* the headers the client received
    flows,      \* Router.Flows: Method, Path and Plugins of each flow
    httpReq,    \* the inbound request's Method and URL.Path
    stages,     \* the stages ServeHTTP ran for the request, in order
    unit,       \* a component exercised on its own: "idle", "ready" or "done"
    reply,      \* the answer of the upstream server that call reads
    got,        \* what call returned for it
    bytesRead,  \* the bytes call read from the answer's body
    numHosts,   \* len(u.hosts)
    currentHostIdx, \* httpUpstream.currentHostIdx, the round-robin cursor
    selHost,    \* per caller: the host selectHost returned to it (-1: none pending)
    selections, \* the hosts selected so far, in the order of the atomic additions
    sentTo,     \* per host: the requests sent to it
    circuit,    \* a CircuitBreaker driven directly by its callers
    clock,      \* time.Now for that breaker, in ticks
    run,        \* OnFailure calls since the last OnSuccess call (saturating)
    halfOpenAllows, \* Allow calls that found the state HalfOpen since it was entered
    probes,     \* Allow calls that returned true since Open -> HalfOpen, that call included
    lastOp,     \* the last call on the breaker: its name, result, time and the breaker before it
    admit,      \* per caller: the breaker state in which Allow admitted its running attempt
    lbMode,     \* policy.LoadBalancing.Mode
    activeConnections, \* httpUpstream.activeConnections, per host
    lc,         \* per caller: its call() around selectHost: pc, loop index, best, min, host
    lcReturned, \* some call() has returned since construction
    forwardQueries, \* httpUpstream.forwardQueries
    origQuery,  \* original.URL.Query(): per key, its values
    targetQuery, \* the query of the request sent to the upstream
    qState,     \* resolveQueries: "idle", "ready" or "resolved"
    rlStopped,  \* RateLimit.stopped
    closes,     \* close(rl.stopCh) executed so far; a second one panics
    stopReturned, \* Stop calls that have returned nil
    janitor,    \* the goroutine of Start: "none", "select", "cleanup" or "exited"
    tickPending, \* ticker.C holds a tick
    forwardHeaders, \* httpUpstream.forwardHeaders
    trustedProxies, \* httpUpstream.trustedProxies, as a set of CIDRs
    original,   \* the inbound request: Header, RemoteAddr, TLS, Host
    fwState,    \* newRequest: "idle", "ready", "resolved" or "failed"
    targetHeader \* the Header of the request sent to the upstream

callVars == <<now, policy, cb, target, pc, attempt, ctxDone, resp, ret, calls,
              hits, stopped, stopResp, streak, lastFailEnd>>

dispVars == <<maxParallel, dstate, reqDone, task, sem, results, returned>>

rlVars == <<limit, window, buckets, allowed, winCount, winEnd, shadow>>

aggVars == <<responses, aggregation, srv, path, aggregated, status, responseBody, written,
             upHeaders, outHeader, flows, httpReq, stages>>

fwdVars == <<forwardHeaders, trustedProxies, original, fwState, targetHeader>>

lcVars == <<lbMode, activeConnections, lc, lcReturned>>

qVars == <<forwardQueries, origQuery, targetQuery, qState>>

stopVars == <<rlStopped, closes, stopReturned, janitor, tickPending>>

tailVars == <<qVars, stopVars>>

moreVars == <<admit, lcVars, tailVars>>

unitVars == <<unit, reply, got, bytesRead, numHosts, currentHostIdx, selHost, selections,
              sentTo, circuit, clock, run, halfOpenAllows, probes, lastOp, moreVars>>

vars == <<callVars, dispVars, rlVars, aggVars, fwdVars, unitVars>>

----------------------------------------------------------------------------
(* Bounds of the model. *)

NumUpstreams == 2
MaxTime == 3
MaxCalls == 3
MaxRetriesBound == 2
MaxFailuresBound == 2
MaxResetTimeout == 2
MaxBodyLen == 1
MaxLimit == 2
MaxWindow == 2
MaxResponses == 3

Upstreams == 1..NumUpstreams
Callers == Upstreams
Keys == {"x", "y"}

Min(a, b) == IF a < b THEN a ELSE b

----------------------------------------------------------------------------
(* UpstreamResponse, UpstreamError and the error kinds. *)

UpstreamTimeout == "timeout"
UpstreamCanceled == "canceled"
UpstreamConnection == "connection"
UpstreamBadStatus == "bad_status"
UpstreamReadError == "read_error"
UpstreamBodyTooLarge == "body_too_large"
UpstreamCircuitOpen == "circuit_open"
UpstreamInternal == "internal"

\* Err == nil is Kind "none"; Cause is the wrapped original error (UpstreamError.Err):
\* "nil", "deadline" (context.DeadlineExceeded), "canceled" (context.Canceled), "other".
NoErr == [Kind |-> "none", Cause |-> "nil"]
UpstreamError(kind, cause) == [Kind |-> kind, Cause |-> cause]

\* A body: t is "nil" (Go nil slice), "empty" (zero bytes), "str" (bytes that are a
\* JSON string), "null" (the JSON text null), "bad" (bytes that are not JSON) or "obj"
\* (a JSON object); s tags the bytes, n is their length, o the object's fields
\* (0 = key absent).
NoObj == [k \in Keys |-> 0]
NilBody == [t |-> "nil", s |-> 0, n |-> 0, o |-> NoObj]
BytesBody(tag, len) ==
    [t |-> IF len = 0 THEN "empty" ELSE "str", s |-> tag, n |-> len, o |-> NoObj]

UpstreamResponse(st, body, err) == [Status |-> st, Body |-> body, Err |-> err]
EmptyResp == UpstreamResponse(0, NilBody, NoErr)
NoResp == UpstreamResponse(-1, NilBody, NoErr)

----------------------------------------------------------------------------
(* internal/circuitbreaker *)

Closed == "Closed"
Open == "Open"
HalfOpen == "HalfOpen"

New(threshold, resetTimeout) ==
    [state |-> Closed, failures |-> 0, lastFailureAt |-> 0,
     threshold |-> threshold, resetTimeout |-> resetTimeout, halfOpenTrial |-> FALSE]

\* Allow: the breaker after the call, and the value returned.
AllowState(b, t) ==
    CASE b.state = Open ->
            IF t - b.lastFailureAt >= b.resetTimeout
            THEN [b EXCEPT !.state = HalfOpen, !.halfOpenTrial = FALSE]
            ELSE b
      [] b.state = HalfOpen ->
            IF ~b.halfOpenTrial THEN [b EXCEPT !.halfOpenTrial = TRUE] ELSE b
      [] OTHER -> b

AllowAlways(b, t) == TRUE

AllowDeniesInHalfOpen(b, t) ==
    CASE b.state = Open -> t - b.lastFailureAt >= b.resetTimeout
      [] b.state = HalfOpen -> FALSE
      [] OTHER -> TRUE

AllowResult(b, t) ==
    CASE b.state = Open -> t - b.lastFailureAt >= b.resetTimeout
      [] b.state = HalfOpen -> ~b.halfOpenTrial
      [] OTHER -> TRUE

OnFailureCountsAlways(b, t) ==
    [b EXCEPT !.lastFailureAt = t, !.failures = b.failures + 1,
              !.state = IF b.state = Closed /\ b.failures + 1 < b.threshold
                        THEN Closed ELSE Open]

OnFailure(b, t) ==
    LET b1 == [b EXCEPT !.lastFailureAt = t] IN
    CASE b.state = HalfOpen -> [b1 EXCEPT !.state = Open, !.failures = b.threshold]
      [] b.state = Closed ->
            [b1 EXCEPT !.failures = b.failures + 1,
                       !.state = IF b.failures + 1 >= b.threshold THEN Open ELSE Closed]
      [] OTHER -> b1

OnSuccessKeepsFailures(b) ==
    CASE b.state = HalfOpen -> [b EXCEPT !.state = Closed, !.failures = 0]
      [] OTHER -> b

OnSuccess(b) ==
    CASE b.state = HalfOpen -> [b EXCEPT !.state = Closed, !.failures = 0]
      [] b.state = Closed -> [b EXCEPT !.failures = 0]
      [] OTHER -> b

----------------------------------------------------------------------------
(* httpUpstream.call: one HTTP attempt.  The reply o of the network is        *)
(* [tr, status, n, rf]: the transport result, the status code, the length of  *)
(* the body the server sends and whether reading the body fails.              *)

Replies(u, canceled) ==
    {[tr |-> t, status |-> 0, n |-> 0, rf |-> FALSE] :
        t \in {UpstreamConnection, UpstreamTimeout}
              \cup (IF canceled THEN {UpstreamCanceled} ELSE {})}
    \cup {[tr |-> "ok", status |-> 500, n |-> 0, rf |-> FALSE]}
    \cup {[tr |-> "ok", status |-> s, n |-> MaxBodyLen, rf |-> FALSE] : s \in {200, 404}}
    \cup {[tr |-> "ok", status |-> 200, n |-> MaxBodyLen, rf |-> TRUE]}

readLenShort(n, maxResponseBodySize) ==
    IF maxResponseBodySize > 0 THEN Min(n, maxResponseBodySize) ELSE n

\* io.ReadAll of the body of n bytes, behind io.LimitReader(body, max + 1) when
\* the limit is set: the number of bytes read.
readLen(n, maxResponseBodySize) ==
    IF maxResponseBodySize > 0 THEN Min(n, maxResponseBodySize + 1) ELSE n

call(u, o, maxResponseBodySize) ==
    CASE o.tr = "internal" ->
            UpstreamResponse(0, NilBody, UpstreamError(UpstreamInternal, "other"))
      [] o.tr = UpstreamConnection ->
            UpstreamResponse(0, NilBody, UpstreamError(UpstreamConnection, "other"))
      [] o.tr = UpstreamTimeout ->
            UpstreamResponse(0, NilBody, UpstreamError(UpstreamTimeout, "deadline"))
      [] o.tr = UpstreamCanceled ->
            UpstreamResponse(0, NilBody, UpstreamError(UpstreamCanceled, "canceled"))
      [] OTHER ->
            IF o.status >= 500
            THEN UpstreamResponse(o.status, NilBody, UpstreamError(UpstreamBadStatus, "other"))
            ELSE IF o.rf
            THEN UpstreamResponse(o.status, NilBody, UpstreamError(UpstreamReadError, "other"))
            ELSE LET read == readLen(o.n, maxResponseBodySize)
                 IN IF maxResponseBodySize > 0 /\ read > maxResponseBodySize
                    THEN UpstreamResponse(o.status, NilBody,
                                          UpstreamError(UpstreamBodyTooLarge, "nil"))
                    ELSE UpstreamResponse(o.status, BytesBody(u, read), NoErr)

isBreakerFailure(uerr) ==
    IF uerr.Kind = "none" \/ uerr.Cause = "nil" THEN FALSE
    ELSE IF uerr.Cause \in {"canceled", "deadline"} THEN FALSE
    ELSE uerr.Kind \in {UpstreamTimeout, UpstreamConnection, UpstreamBadStatus}

\* The breaker-failure kinds of the design: the kinds meant to advance the breaker.
BreakerFailureKinds == {UpstreamTimeout, UpstreamConnection, UpstreamBadStatus}

----------------------------------------------------------------------------
(* httpUpstream.Call: the retry loop. *)

Policy(maxRetries, retryOn, backoff, maxBody, breaker, maxFailures, resetTimeout) ==
    [maxRetries |-> maxRetries, retryOn |-> retryOn, backoff |-> backoff,
     maxBody |-> maxBody, breaker |-> breaker, maxFailures |-> maxFailures,
     resetTimeout |-> resetTimeout, mapStatusCodes |-> {}]

\* Policy.MapStatusCodes, a map[int]int, as its set of <<from, to>> pairs.
WithMapStatusCodes(pol, m) == [pol EXCEPT !.mapStatusCodes = m]

\* Policies that map 404 to 502, with and without a retry on either status.
MapStatusPolicies ==
    {WithMapStatusCodes(Policy(mr, ro, bo, 0, FALSE, 1, 1), {<<404, 502>>}) :
        mr \in 0..1, ro \in {{}, {404}, {502}}, bo \in BOOLEAN}

Policies ==
    {Policy(mr, ro, bo, 0, FALSE, 1, 1) :
        mr \in 0..MaxRetriesBound, ro \in {{}, {404}}, bo \in BOOLEAN}
    \cup
    {Policy(mr, ro, bo, 0, TRUE, mf, rt) :
        mr \in 0..MaxRetriesBound, ro \in {{}, {404}}, bo \in BOOLEAN,
        mf \in 1..MaxFailuresBound, rt \in 1..MaxResetTimeout}

LoopCondOffByOne(att, maxRetries) == att <= maxRetries + 1

\* for attempt := 0; attempt <= retryPolicy.MaxRetries; attempt++
LoopCond(att, maxRetries) == att <= maxRetries

\* resp.Err == nil && !slices.Contains(retryPolicy.RetryOnStatuses, resp.Status)
StopCond(r, retryOn) == r.Err.Kind = "none" /\ r.Status \notin retryOn

\* Call is entered with a context that is canceled (done) or live.
CallBegin(p, done) ==
    /\ target[p] # 0
    /\ pc[p] \in {"idle", "done"}
    /\ pc' = [pc EXCEPT ![p] = "loop"]
    /\ calls' = calls + 1
    /\ attempt' = [attempt EXCEPT ![p] = 0]
    /\ ctxDone' = [ctxDone EXCEPT ![p] = done]
    /\ resp' = [resp EXCEPT ![p] = EmptyResp]
    /\ ret' = [ret EXCEPT ![p] = NoResp]
    /\ hits' = [hits EXCEPT ![p] = 0]
    /\ stopped' = [stopped EXCEPT ![p] = FALSE]
    /\ stopResp' = [stopResp EXCEPT ![p] = NoResp]
    /\ UNCHANGED <<now, policy, cb, target, streak, lastFailEnd>>

\* The head of one loop iteration: the loop condition, the select on ctx.Done(),
\* the breaker's Allow, and the start of the HTTP attempt.
LoopHead(p) ==
    LET u == target[p]
        pol == policy[u]
    IN
    /\ pc[p] = "loop"
    /\ IF ~LoopCond(attempt[p], pol.maxRetries)
       THEN /\ ret' = [ret EXCEPT ![p] = resp[p]]
            /\ resp' = [resp EXCEPT ![p] = EmptyResp]
            /\ pc' = [pc EXCEPT ![p] = "done"]
            /\ UNCHANGED <<cb, hits>>
       ELSE IF ctxDone[p]
       THEN /\ ret' = [ret EXCEPT ![p] =
                          [resp[p] EXCEPT !.Err = UpstreamError(UpstreamCanceled, "canceled")]]
            /\ resp' = [resp EXCEPT ![p] = EmptyResp]
            /\ pc' = [pc EXCEPT ![p] = "done"]
            /\ UNCHANGED <<cb, hits>>
       ELSE IF pol.breaker /\ ~AllowResult(cb[u], now)
       THEN /\ cb' = [cb EXCEPT ![u] = AllowState(cb[u], now)]
            /\ ret' = [ret EXCEPT ![p] =
                          UpstreamResponse(0, NilBody,
                                           UpstreamError(UpstreamCircuitOpen, "other"))]
            /\ resp' = [resp EXCEPT ![p] = EmptyResp]
            /\ pc' = [pc EXCEPT ![p] = "done"]
            /\ UNCHANGED hits
       ELSE /\ cb' = [cb EXCEPT ![u] = IF pol.breaker THEN AllowState(cb[u], now) ELSE @]
            /\ pc' = [pc EXCEPT ![p] = "inflight"]
            /\ hits' = [hits EXCEPT ![p] = @ + 1]
            /\ UNCHANGED <<resp, ret>>
    /\ UNCHANGED <<now, policy, target, attempt, ctxDone, calls, stopped, stopResp,
                   streak, lastFailEnd>>

\* The attempt returns: resp = u.call(...), the breaker is fed, and the loop either
\* `break`s (out of the select statement only: the for loop goes on with attempt+1),
\* sleeps the backoff delay, or goes straight to the next iteration.
AttemptDone(p, o) ==
    LET u == target[p]
        pol == policy[u]
        r == call(u, o, pol.maxBody)
        failed == r.Err.Kind \in BreakerFailureKinds
        stop == StopCond(r, pol.retryOn)
    IN
    /\ pc[p] = "inflight"
    /\ resp' = [resp EXCEPT ![p] = r]
    /\ cb' = [cb EXCEPT ![u] =
                IF ~pol.breaker THEN @
                ELSE IF r.Err.Kind # "none" /\ isBreakerFailure(r.Err)
                THEN OnFailure(@, now)
                ELSE OnSuccess(@)]
    /\ streak' = [streak EXCEPT ![u] = IF failed THEN Min(@ + 1, MaxFailuresBound + 1) ELSE 0]
    /\ lastFailEnd' = [lastFailEnd EXCEPT ![u] = IF failed THEN now ELSE @]
    /\ IF stop
       THEN /\ attempt' = [attempt EXCEPT ![p] = @ + 1]
            /\ pc' = [pc EXCEPT ![p] = "loop"]
            /\ stopped' = [stopped EXCEPT ![p] = TRUE]
            /\ stopResp' = [stopResp EXCEPT ![p] = IF stopped[p] THEN @ ELSE r]
       ELSE IF pol.backoff
       THEN /\ pc' = [pc EXCEPT ![p] = "backoff"]
            /\ UNCHANGED <<attempt, stopped, stopResp>>
       ELSE /\ attempt' = [attempt EXCEPT ![p] = @ + 1]
            /\ pc' = [pc EXCEPT ![p] = "loop"]
            /\ UNCHANGED <<stopped, stopResp>>
    /\ UNCHANGED <<now, policy, target, ctxDone, ret, calls, hits>>

\* case <-time.After(retryPolicy.BackoffDelay)
BackoffElapsed(p) ==
    /\ pc[p] = "backoff"
    /\ attempt' = [attempt EXCEPT ![p] = @ + 1]
    /\ pc' = [pc EXCEPT ![p] = "loop"]
    /\ UNCHANGED <<now, policy, cb, target, ctxDone, resp, ret, calls, hits, stopped,
                   stopResp, streak, lastFailEnd>>

\* case <-ctx.Done() during the backoff
BackoffCanceled(p) ==
    /\ pc[p] = "backoff"
    /\ ctxDone[p]
    /\ ret' = [ret EXCEPT ![p] =
                  [resp[p] EXCEPT !.Err = UpstreamError(UpstreamCanceled, "canceled")]]
    /\ resp' = [resp EXCEPT ![p] = EmptyResp]
    /\ pc' = [pc EXCEPT ![p] = "done"]
    /\ UNCHANGED <<now, policy, cb, target, attempt, ctxDone, calls, hits, stopped,
                   stopResp, streak, lastFailEnd>>

\* The caller's context is canceled while its Call runs.
Cancel(p) ==
    /\ pc[p] \in {"loop", "inflight", "backoff"}
    /\ ~ctxDone[p]
    /\ ctxDone' = [ctxDone EXCEPT ![p] = TRUE]
    /\ UNCHANGED <<now, policy, cb, target, pc, attempt, resp, ret, calls, hits, stopped,
                   stopResp, streak, lastFailEnd>>

Tick ==
    /\ now < MaxTime
    /\ now' = now + 1
    /\ UNCHANGED <<policy, cb, target, pc, attempt, ctxDone, resp, ret, calls, hits,
                   stopped, stopResp, streak, lastFailEnd>>

----------------------------------------------------------------------------
(* Successive requests calling one upstream. *)

\* A new request (with a live context) calls the upstream.
CallStart(p) ==
    /\ calls < MaxCalls
    /\ CallBegin(p, FALSE)

----------------------------------------------------------------------------
(* The aggregator (defaultAggregator) and the client envelope.                 *)
(* A body is nil, empty, or bytes: a JSON object ("obj", o marks its keys; the *)
(* value of a key is the one its upstream sent), JSON null, another valid JSON *)
(* value ("str"), or bytes that are not JSON ("bad").                          *)

ClientErrRateLimitExceeded == "RATE_LIMIT_EXCEEDED"
ClientErrPayloadTooLarge == "PAYLOAD_TOO_LARGE"
ClientErrUpstreamBodyTooLarge == "UPSTREAM_BODY_TOO_LARGE"
ClientErrUpstreamUnavailable == "UPSTREAM_UNAVAILABLE"
ClientErrUpstreamError == "UPSTREAM_ERROR"
ClientErrUpstreamMalformed == "UPSTREAM_MALFORMED"
ClientErrInternal == "INTERNAL"
ClientErrAborted == "ABORTED"
ClientErrValueConflict == "VALUE_CONFLICT"

strategyMerge == "merge"
strategyArray == "array"
strategyNamespace == "namespace"

conflictPolicyOverwrite == "overwrite"
conflictPolicyError == "error"
conflictPolicyFirst == "first"
conflictPolicyPrefer == "prefer"

ObjBody(o) == [t |-> "obj", s |-> 0, n |-> 1, o |-> o]
NullBody == [t |-> "null", s |-> 0, n |-> 1, o |-> NoObj]
BadBody == [t |-> "bad", s |-> 0, n |-> 1, o |-> NoObj]

\* json.Valid, as json.Marshal applies it to a json.RawMessage.
jsonValid(body) == body.t \in {"obj", "null", "str"}

\* Whether json.Unmarshal(body, &obj) into a map succeeds (null leaves it empty).
unmarshalOk(body) == body.t \in {"obj", "null"}

\* json.RawMessage values: nil, the bytes of a body, a marshalled map, a
\* marshalled array of raw bodies, or the text null (a nil slice marshalled).
NilData == [t |-> "nil", b |-> NilBody, o |-> NoObj, a |-> <<>>]
RawData(body) == [t |-> "raw", b |-> body, o |-> NoObj, a |-> <<>>]
ObjData(final) == [t |-> "obj", b |-> NilBody, o |-> final, a |-> <<>>]
ArrData(arr) ==
    IF arr = <<>>
    THEN [t |-> "null", b |-> NilBody, o |-> NoObj, a |-> <<>>]
    ELSE [t |-> "arr", b |-> NilBody, o |-> NoObj, a |-> arr]

AggregatedResponse(data, errs, partial) ==
    [Data |-> data, Errors |-> errs, Partial |-> partial, Panic |-> FALSE]

\* aggregate did not return: a nil dereference panicked in it.
Panicked == [Data |-> NilData, Errors |-> <<>>, Partial |-> FALSE, Panic |-> TRUE]

Aggregation(strategy, bestEffort, conflict, preferred) ==
    [Strategy |-> strategy, BestEffort |-> bestEffort,
     ConflictPolicy |-> conflict, PreferredUpstream |-> preferred]

initAggregation(strategy, bestEffort, conflict, idx) ==
    IF strategy # strategyMerge
    THEN Aggregation(strategy, bestEffort, conflictPolicyOverwrite, -1)
    ELSE IF conflict = conflictPolicyPrefer
    THEN Aggregation(strategy, bestEffort, conflict, idx)
    ELSE Aggregation(strategy, bestEffort, conflict, -1)

mapUpstreamError(uerr) ==
    CASE uerr.Kind \in {UpstreamTimeout, UpstreamConnection} -> ClientErrUpstreamUnavailable
      [] uerr.Kind = UpstreamBadStatus -> ClientErrUpstreamError
      [] uerr.Kind = UpstreamBodyTooLarge -> ClientErrUpstreamBodyTooLarge
      [] OTHER -> ClientErrInternal

getRespInternalError == AggregatedResponse(NilData, <<ClientErrInternal>>, FALSE)

getRespUpstreamMalformedError ==
    AggregatedResponse(NilData, <<ClientErrUpstreamMalformed>>, FALSE)

RECURSIVE dedupeErrors(_)
dedupeErrors(errs) ==
    IF errs = <<>> THEN <<>>
    ELSE LET n == Len(errs)
             front == dedupeErrors(SubSeq(errs, 1, n - 1))
         IN IF \E j \in 1..(n - 1) : errs[j] = errs[n]
            THEN front
            ELSE Append(front, errs[n])

rawResponse(rs) ==
    IF Len(rs) > 1 THEN getRespInternalError
    ELSE IF rs[1].Err.Kind # "none"
    THEN AggregatedResponse(NilData, <<mapUpstreamError(rs[1].Err)>>, FALSE)
    ELSE IF rs[1].Body.t = "nil"
    THEN AggregatedResponse(NilData, <<>>, FALSE)
    ELSE AggregatedResponse(RawData(rs[1].Body), <<>>, FALSE)

\* merged[k] is 0 while key k is absent, else 1 + the index of the upstream that
\* owns its value (the code's indices start at 0).
\* A merge that never sees a conflict.
mergeConflictNever(m, obj) == FALSE

mergeConflict(m, obj) == \E k \in Keys : obj[k] # 0 /\ m[k] # 0

\* A merge that lets the later upstream win whatever the policy.
mergeObjectLaterWins(m, obj, idx, agg) ==
    [k \in Keys |-> IF obj[k] = 0 THEN m[k] ELSE idx + 1]

\* A merge whose prefer policy lets the later upstream win among the others.
mergeObjectPreferElseLater(m, obj, idx, agg) ==
    [k \in Keys |->
        IF obj[k] = 0 THEN m[k]
        ELSE IF m[k] - 1 = agg.PreferredUpstream THEN m[k]
        ELSE idx + 1]

mergeObject(m, obj, idx, agg) ==
    [k \in Keys |->
        IF obj[k] = 0 THEN m[k]
        ELSE IF m[k] = 0 THEN idx + 1
        ELSE CASE agg.ConflictPolicy = conflictPolicyOverwrite -> idx + 1
               [] agg.ConflictPolicy = conflictPolicyFirst -> m[k]
               [] agg.ConflictPolicy = conflictPolicyPrefer ->
                     IF m[k] - 1 = agg.PreferredUpstream THEN m[k]
                     ELSE IF idx = agg.PreferredUpstream THEN idx + 1
                     ELSE m[k]
               [] OTHER -> m[k]]

\* The loop of merged from response i on: m the map so far, errs the
\* aggregation errors, cnt the successfulResponseCount.
RECURSIVE mergedFrom(_, _, _, _, _, _)
mergedFrom(rs, agg, i, m, errs, cnt) ==
    IF i > Len(rs)
    THEN AggregatedResponse(ObjData(m), dedupeErrors(errs), Len(errs) > 0 /\ cnt > 0)
    ELSE LET r == rs[i] IN
         IF r.Err.Kind # "none"
         THEN IF ~agg.BestEffort
              THEN AggregatedResponse(NilData, <<mapUpstreamError(r.Err)>>, FALSE)
              ELSE mergedFrom(rs, agg, i + 1, m, Append(errs, mapUpstreamError(r.Err)), cnt)
         ELSE IF r.Body.t = "nil"
         THEN mergedFrom(rs, agg, i + 1, m, errs, cnt + 1)
         ELSE IF ~unmarshalOk(r.Body)
         THEN IF ~agg.BestEffort
              THEN getRespUpstreamMalformedError
              ELSE mergedFrom(rs, agg, i + 1, m,
                              Append(errs, ClientErrUpstreamMalformed), cnt + 1)
         ELSE IF agg.ConflictPolicy = conflictPolicyError /\ mergeConflict(m, r.Body.o)
         THEN AggregatedResponse(NilData, <<ClientErrValueConflict>>, FALSE)
         ELSE mergedFrom(rs, agg, i + 1, mergeObject(m, r.Body.o, i - 1, agg), errs, cnt + 1)

merged(rs, agg) == mergedFrom(rs, agg, 1, NoObj, <<>>, 0)

\* The loop of arrayed from response i on.  Its warning evaluates
\* resp.Err.Unwrap().Error(), which dereferences nil when the error wraps none.
RECURSIVE arrayedFrom(_, _, _, _, _, _)
arrayedFrom(rs, agg, i, arr, errs, cnt) ==
    IF i > Len(rs)
    THEN IF \E j \in 1..Len(arr) : ~jsonValid(arr[j])
         THEN getRespUpstreamMalformedError
         ELSE AggregatedResponse(ArrData(arr), dedupeErrors(errs),
                                 Len(errs) > 0 /\ cnt > 0)
    ELSE LET r == rs[i] IN
         IF r.Err.Kind # "none"
         THEN IF r.Err.Cause = "nil"
              THEN Panicked
              ELSE IF ~agg.BestEffort
              THEN AggregatedResponse(NilData, <<mapUpstreamError(r.Err)>>, FALSE)
              ELSE arrayedFrom(rs, agg, i + 1, arr,
                               Append(errs, mapUpstreamError(r.Err)), cnt)
         ELSE IF r.Body.t = "nil"
         THEN arrayedFrom(rs, agg, i + 1, arr, errs, cnt + 1)
         ELSE arrayedFrom(rs, agg, i + 1, Append(arr, r.Body), errs, cnt + 1)

arrayed(rs, agg) == arrayedFrom(rs, agg, 1, <<>>, <<>>, 0)

namespaced(rs, agg) == AggregatedResponse(NilData, <<"not implemented">>, FALSE)

\* An aggregator without the single-response shortcut.
aggregateByStrategy(rs, agg) ==
    CASE agg.Strategy = strategyMerge -> merged(rs, agg)
      [] agg.Strategy = strategyArray -> arrayed(rs, agg)
      [] agg.Strategy = strategyNamespace -> namespaced(rs, agg)
      [] OTHER -> AggregatedResponse(NilData, <<>>, FALSE)

aggregate(rs, agg) ==
    IF Len(rs) = 1 THEN rawResponse(rs)
    ELSE CASE agg.Strategy = strategyMerge -> merged(rs, agg)
           [] agg.Strategy = strategyArray -> arrayed(rs, agg)
           [] agg.Strategy = strategyNamespace -> namespaced(rs, agg)
           [] OTHER -> AggregatedResponse(NilData, <<>>, FALSE)

\* What mustMarshal(ClientResponse{Data, Errors}) writes: data and errors are
\* omitted when empty; data that is not valid JSON makes json.Marshal fail and
\* mustMarshal fall back to its fixed internal-error body.
NoEnvelope == [kind |-> "none", data |-> NilData, errors |-> <<>>]
Envelope(data, errs) == [kind |-> "json", data |-> data, errors |-> errs]
\* The literal of mustMarshal: its one error is the object {"code":"internal",...}.
FallbackEnvelope == [kind |-> "fallback", data |-> NilData, errors |-> <<"internal">>]
TextEnvelope == [kind |-> "text", data |-> NilData, errors |-> <<>>]

mustMarshal(data, errs) ==
    IF data.t = "raw" /\ ~jsonValid(data.b) /\ data.b.t # "empty"
    THEN FallbackEnvelope
    ELSE IF data.t = "raw" /\ data.b.t = "empty"
    THEN Envelope(NilData, errs)
    ELSE Envelope(data, errs)

\* A switch that answers 500 whenever there are errors.
chooseStatusErrorsFirst(agg) ==
    IF Len(agg.Errors) > 0 THEN 500
    ELSE IF agg.Partial THEN 206
    ELSE 200

\* The status switch of ServeHTTP.
chooseStatus(agg) ==
    IF Len(agg.Errors) > 0 /\ ~agg.Partial THEN 500
    ELSE IF agg.Partial THEN 206
    ELSE 200

chooseBody(agg) ==
    IF Len(agg.Errors) > 0 /\ ~agg.Partial THEN mustMarshal(NilData, agg.Errors)
    ELSE IF agg.Partial THEN mustMarshal(agg.Data, agg.Errors)
    ELSE mustMarshal(agg.Data, <<>>)

\* WriteError(w, code, status).
WriteError(code, st) == [code |-> st, env |-> Envelope(NilData, <<code>>)]

----------------------------------------------------------------------------
(* The headers of the answer.  A map of the handler has the keys as written  *)
(* (the Router's literal "X-Request-ID" is no canonical key, the keys of an  *)
(* upstream's http.Response are); the ResponseWriter's map has canonical     *)
(* keys.  <<>> is an absent key, "" an absent header of the answer.          *)

RespKeys == {"X-Request-ID", "X-Request-Id", "Content-Type", "X-Up"}

\* textproto.CanonicalMIMEHeaderKey
CanonicalKey(k) == IF k = "X-Request-ID" THEN "X-Request-Id" ELSE k

WireKeys == {CanonicalKey(k) : k \in RespKeys}

\* getOrCreateRequestID(req)
requestID == "req-1"

NoRespHeader == [k \in RespKeys |-> <<>>]

NoOutHeader == [c \in WireKeys |-> ""]

\* headers := http.Header{...}; for each response in order, headers[k] = v
RECURSIVE mergeHeaders(_, _)
mergeHeaders(headers, ups) ==
    IF ups = <<>> THEN headers
    ELSE mergeHeaders([k \in RespKeys |->
                          IF Head(ups)[k] # <<>> THEN Head(ups)[k] ELSE headers[k]],
                      Tail(ups))

responseHeaders(ups) ==
    mergeHeaders([k \in RespKeys |->
                     CASE k = "X-Request-ID" -> <<requestID>>
                       [] k = "Content-Type" -> <<"application/json; charset=utf-8">>
                       [] OTHER -> <<>>],
                 ups)

\* copyResponse: w.Header().Set(k, v) for every key and value of resp.Header.
\* Set canonicalises k, so among the keys of one canonical form the one that
\* the map iteration visits last gives the value; the iteration order of a Go
\* map is unspecified.
copyResponse(h) ==
    {out \in [WireKeys -> {""} \cup {h[k][Len(h[k])] : k \in {q \in RespKeys : h[q] # <<>>}}] :
        \A c \in WireKeys :
            LET from == {k \in RespKeys : CanonicalKey(k) = c /\ h[k] # <<>>}
            IN IF from = {} THEN out[c] = ""
               ELSE \E k \in from : out[c] = h[k][Len(h[k])]}

\* WriteError and http.NotFound set Content-Type only.
contentTypeOnly(ct) == [NoOutHeader EXCEPT !["Content-Type"] = ct]

----------------------------------------------------------------------------
(* Flows, plugins and the stages of a request. *)

PluginTypeRequest == "request"
PluginTypeResponse == "response"

\* A plugin: its Type() and whether its Execute sets a header of the response.
Plugin(type, sets) == [Type |-> type, Sets |-> sets]

Flow(method, urlPath, plugins) == [Method |-> method, Path |-> urlPath, Plugins |-> plugins]

\* strings.EqualFold over the method names of the model
EqualFold(a, b) ==
    LET upper(m) == CASE m = "get" -> "GET" [] m = "post" -> "POST" [] OTHER -> m
    IN upper(a) = upper(b)

\* The loop of Router.match from flow i on: the index of the flow it returns, 0 for nil.
RECURSIVE matchFrom(_, _, _)
matchFrom(fs, r, i) ==
    IF i > Len(fs) THEN 0
    ELSE IF fs[i].Method # "" /\ ~EqualFold(fs[i].Method, r.Method)
    THEN matchFrom(fs, r, i + 1)
    ELSE IF fs[i].Path # "" /\ r.Path = fs[i].Path THEN i
    ELSE matchFrom(fs, r, i + 1)

\* A match that returns the last flow that fits.
matchLast(fs, r) ==
    LET fit == {i \in 1..Len(fs) : matchFrom(<<fs[i]>>, r, 1) = 1}
    IN IF fit = {} THEN 0 ELSE CHOOSE i \in fit : \A j \in fit : j <= i

match(fs, r) == matchFrom(fs, r, 1)

Stage(name, i) == [s |-> name, i |-> i]

\* The plugins of one type that Execute when the loop over Plugins runs up to
\* index upto, in the order of the loop.
executed(plugins, type, upto) ==
    SelectSeq([i \in 1..Len(plugins) |-> Stage(plugins[i].Type, i)],
              LAMBDA x : x.s = type /\ x.i <= upto)

\* The plugin whose Execute returns an error on a plugin-error path (0: none).
Failing(e, plugins) ==
    CASE e = "request_plugin_error" ->
            {i \in 1..Len(plugins) : plugins[i].Type = PluginTypeRequest}
      [] e = "response_plugin_error" ->
            {i \in 1..Len(plugins) : plugins[i].Type = PluginTypeResponse}
      [] OTHER -> {0}

\* What ServeHTTP runs on path e when plugin f fails.
stagesOf(e, f, plugins, panic) ==
    LET n == Len(plugins)
        admitted == <<Stage("match", 0), Stage("ratelimit", 0)>>
        requested == admitted \o executed(plugins, PluginTypeRequest, n)
        aggregated_ == requested \o <<Stage("dispatch", 0), Stage("aggregate", 0)>>
        write == <<Stage("write", 0)>>
    IN CASE e = "no_match" -> <<Stage("match", 0)>> \o write
         [] e = "rate_limited" -> admitted \o write
         [] e = "request_plugin_error" ->
               admitted \o executed(plugins, PluginTypeRequest, f) \o write
         [] e \in {"lua_error", "lua_abort"} -> requested \o <<Stage("lua", 0)>> \o write
         [] e = "dispatch_nil" -> requested \o <<Stage("dispatch", 0)>> \o write
         [] panic -> aggregated_
         [] e = "response_plugin_error" ->
               aggregated_ \o executed(plugins, PluginTypeResponse, f) \o write
         [] OTHER -> aggregated_ \o executed(plugins, PluginTypeResponse, n) \o write

noPluginHeaders(h, plugins) == h

\* The response plugins have run on tctx.Response(): one that sets a header
\* leaves X-Up: plugin in resp.Header.
pluginHeaders(h, plugins) ==
    IF \E i \in 1..Len(plugins) : plugins[i].Type = PluginTypeResponse /\ plugins[i].Sets
    THEN [h EXCEPT !["X-Up"] = <<"plugin">>]
    ELSE h

\* One flow GET /a with a request plugin and a response plugin, and a request for it.
DefaultRoute ==
    [flows |-> <<Flow("GET", "/a", <<Plugin(PluginTypeRequest, FALSE),
                                      Plugin(PluginTypeResponse, FALSE)>>)>>,
     req |-> [Method |-> "GET", Path |-> "/a"]]

NoAggregation == Aggregation(strategyArray, FALSE, conflictPolicyOverwrite, -1)

IdleRouter ==
    /\ responses = <<>>
    /\ aggregation = NoAggregation
    /\ srv = "done"
    /\ path = "none"
    /\ aggregated = AggregatedResponse(NilData, <<>>, FALSE)
    /\ status = 0
    /\ responseBody = NoEnvelope
    /\ written = [code |-> 0, env |-> NoEnvelope]
    /\ upHeaders = <<>>
    /\ outHeader = NoOutHeader
    /\ flows = <<>>
    /\ httpReq = [Method |-> "GET", Path |-> "/a"]
    /\ stages = <<>>

----------------------------------------------------------------------------
(* httpUpstream.resolveHeaders: the headers of the request sent upstream.    *)
(* A header map gives, per name, the list of its values (<<>>: absent); a    *)
(* value is a string, written as the tuple of its comma-separated parts, so  *)
(* that <<>> is the empty string.                                            *)

ForwardedNames ==
    {"X-Forwarded-For", "X-Forwarded-Proto", "X-Forwarded-Host", "X-Forwarded-Port"}

HeaderNames == ForwardedNames \cup {"Content-Type", "X-Trace"}

EmptyHeader == [n \in HeaderNames |-> <<>>]

\* http.Header.Get, Set and Add
Get(h, k) == IF h[k] = <<>> THEN <<>> ELSE h[k][1]
Set(h, k, v) == [h EXCEPT ![k] = <<v>>]
Add(h, k, v) == [h EXCEPT ![k] = Append(@, v)]

\* strings.HasSuffix(fw, "*") and the names that have the prefix before it
IsPrefixPattern(fw) == fw \in {"X-*", "X-Forwarded-*"}
WithPrefix(fw) ==
    IF fw = "X-*" THEN ForwardedNames \cup {"X-Trace"}
    ELSE IF fw = "X-Forwarded-*" THEN ForwardedNames
    ELSE {}

\* The loop over forwardHeaders: "*" clones the inbound map and ends the loop,
\* a prefix pattern adds every value of the matching names, a plain name adds
\* the first value if it is not empty.
RECURSIVE forward(_, _, _)
forward(fws, tgt, orig) ==
    IF fws = <<>> THEN tgt
    ELSE LET fw == Head(fws) IN
         IF fw = "*" THEN orig
         ELSE IF IsPrefixPattern(fw)
         THEN forward(Tail(fws),
                      [n \in HeaderNames |->
                          IF n \in WithPrefix(fw) THEN tgt[n] \o orig[n] ELSE tgt[n]],
                      orig)
         ELSE forward(Tail(fws),
                      IF Get(orig, fw) # <<>> THEN Add(tgt, fw, Get(orig, fw)) ELSE tgt,
                      orig)

\* net.SplitHostPort(original.RemoteAddr) and net.ParseIP: "" stands for an error.
remoteIP(addr) ==
    CASE addr = "1.2.3.4:12345" -> "1.2.3.4"
      [] addr = "10.0.1.5:12345" -> "10.0.1.5"
      [] OTHER -> ""

\* resolvePort: the port of req.Host, else 443 or 80 by TLS
resolvePort(req) ==
    IF req.Host = "example.com:8443" THEN "8443"
    ELSE IF req.TLS THEN "443" ELSE "80"

\* some cidr of trustedProxies has cidr.Contains(ip)
isTrustedProxy(proxies, ip) ==
    \E cidr \in proxies : cidr = "10.0.0.0/8" /\ ip = "10.0.1.5"

appendForwarded(tgt, clientIP, proto, host, port) ==
    Add(Add(Add(Add(tgt, "X-Forwarded-For", <<clientIP>>),
                "X-Forwarded-Proto", <<proto>>),
            "X-Forwarded-Host", <<host>>),
        "X-Forwarded-Port", <<port>>)

\* The branch of a peer that is no trusted proxy.
overwriteForwarded(tgt, clientIP, proto, host, port) ==
    Set(Set(Set(Set(tgt, "X-Forwarded-For", <<clientIP>>),
                "X-Forwarded-Proto", <<proto>>),
            "X-Forwarded-Host", <<host>>),
        "X-Forwarded-Port", <<port>>)

\* The branch of a trusted proxy.
trustForwarded(tgt, orig, clientIP, proto, host, port) ==
    LET incomingXFF == Get(orig, "X-Forwarded-For")
        incomingProto == Get(orig, "X-Forwarded-Proto")
        incomingHost == Get(orig, "X-Forwarded-Host")
        incomingPort == Get(orig, "X-Forwarded-Port")
    IN Set(Set(Set(Set(tgt, "X-Forwarded-For",
                       IF incomingXFF # <<>> THEN incomingXFF \o <<clientIP>>
                                             ELSE <<clientIP>>),
                   "X-Forwarded-Proto",
                   IF incomingProto \in {<<"http">>, <<"https">>} THEN incomingProto
                                                                  ELSE <<proto>>),
               "X-Forwarded-Host",
               IF incomingHost # <<>> THEN incomingHost ELSE <<host>>),
           "X-Forwarded-Port",
           IF incomingPort # <<>> THEN incomingPort ELSE <<port>>)

\* resolveHeaders(target, original): the error it returns and target.Header.
resolveHeaders(fws, proxies, req) ==
    LET fwd == Set(forward(fws, EmptyHeader, req.Header),
                   "Content-Type", Get(req.Header, "Content-Type"))
        clientIP == remoteIP(req.RemoteAddr)
        port == resolvePort(req)
        proto == IF req.TLS THEN "https" ELSE "http"
    IN IF clientIP = "" THEN [err |-> TRUE, Header |-> fwd]
       ELSE [err |-> FALSE,
             Header |-> IF ~isTrustedProxy(proxies, clientIP)
                        THEN overwriteForwarded(fwd, clientIP, proto, req.Host, port)
                        ELSE trustForwarded(fwd, req.Header, clientIP, proto,
                                            req.Host, port)]

ForwardConfigs ==
    {<<>>, <<"*">>, <<"X-Forwarded-*">>, <<"X-Forwarded-For">>,
     <<"X-*", "X-Forwarded-Host">>, <<"X-Forwarded-Proto", "*">>}

\* The headers a client can send.
InboundHeaders ==
    {[n \in HeaderNames |->
        CASE n = "X-Forwarded-For" -> xff
          [] n = "X-Forwarded-Proto" -> xfp
          [] n = "X-Forwarded-Host" -> xfh
          [] n = "X-Forwarded-Port" -> xfo
          [] n = "X-Trace" -> xt
          [] OTHER -> << <<"application/json">> >>] :
        xff \in {<<>>, << <<"6.6.6.6">> >>, << <<"6.6.6.6">>, <<"7.7.7.7">> >>},
        xfp \in {<<>>, << <<"https">> >>, << <<"ftp">> >>},
        xfh \in {<<>>, << <<"evil.test">> >>},
        xfo \in {<<>>, << <<"9">> >>},
        xt \in {<<>>, << <<"t">> >>}}

Request(header, remoteAddr, tls, host) ==
    [Header |-> header, RemoteAddr |-> remoteAddr, TLS |-> tls, Host |-> host]

IdleForward ==
    /\ forwardHeaders = <<>>
    /\ trustedProxies = {}
    /\ original = Request(EmptyHeader, "@", FALSE, "example.com")
    /\ fwState = "idle"
    /\ targetHeader = EmptyHeader

MaxHosts == 4
MaxSelections == 8

NoOp == [op |-> "none", ret |-> FALSE, pre |-> New(1, 1), at |-> 0, admitted |-> "none"]

brkVars == <<circuit, clock, run, halfOpenAllows, probes, lastOp>>

IdleBreaker ==
    /\ circuit = New(1, 1)
    /\ clock = 0
    /\ run = 0
    /\ halfOpenAllows = 0
    /\ probes = 0
    /\ lastOp = NoOp

LBModeRoundRobin == "round_robin"
LBModeLeastConns == "least_conns"
LBModeNone == "none"

\* minActiveConns: math.MaxInt64 (top) or a value read from a counter
MaxInt64 == [top |-> TRUE, v |-> 0]

NoCall == [pc |-> "idle", i |-> 0, best |-> 0, min |-> MaxInt64, reads |-> <<>>, host |-> 0]

IdleLeastConns ==
    /\ lbMode = LBModeNone
    /\ activeConnections = [h \in 0..(MaxHosts - 1) |-> 0]
    /\ lc = [p \in Callers |-> NoCall]
    /\ lcReturned = FALSE

QueryKeys == {"foo", "utm_a", "utm_*"}

EmptyQuery == [k \in QueryKeys |-> <<>>]

IdleQueries ==
    /\ forwardQueries = <<>>
    /\ origQuery = EmptyQuery
    /\ targetQuery = EmptyQuery
    /\ qState = "idle"

IdleStop ==
    /\ rlStopped = FALSE
    /\ closes = 0
    /\ stopReturned = 0
    /\ janitor = "none"
    /\ tickPending = FALSE

IdleTail ==
    /\ IdleQueries
    /\ IdleStop

IdleMore ==
    /\ admit = [p \in Callers |-> "none"]
    /\ IdleLeastConns
    /\ IdleTail

IdleHosts ==
    /\ numHosts = 1
    /\ currentHostIdx = 0
    /\ selHost = [p \in Callers |-> -1]
    /\ selections = <<>>
    /\ sentTo = [h \in 0..(MaxHosts - 1) |-> 0]

IdleUnit ==
    /\ unit = "idle"
    /\ reply = [tr |-> "ok", status |-> 200, n |-> 0, rf |-> FALSE]
    /\ got = NoResp
    /\ bytesRead = 0
    /\ IdleHosts
    /\ IdleBreaker
    /\ IdleMore

\* No Call runs: every upstream has policy pol and a fresh breaker.
IdleCall(pol) ==
    /\ now = 0
    /\ policy = [u \in Upstreams |-> pol]
    /\ cb = [u \in Upstreams |-> New(pol.maxFailures, pol.resetTimeout)]
    /\ target = [p \in Callers |-> 0]
    /\ pc = [p \in Callers |-> "idle"]
    /\ attempt = [p \in Callers |-> 0]
    /\ ctxDone = [p \in Callers |-> FALSE]
    /\ resp = [p \in Callers |-> EmptyResp]
    /\ ret = [p \in Callers |-> NoResp]
    /\ calls = 0
    /\ hits = [p \in Callers |-> 0]
    /\ stopped = [p \in Callers |-> FALSE]
    /\ stopResp = [p \in Callers |-> NoResp]
    /\ streak = [u \in Upstreams |-> 0]
    /\ lastFailEnd = [u \in Upstreams |-> 0]

IdleDispatch ==
    /\ maxParallel = 1
    /\ dstate = "idle"
    /\ reqDone = FALSE
    /\ task = [p \in Callers |-> "waiting"]
    /\ sem = 0
    /\ results = [p \in Callers |-> NoResp]
    /\ returned = <<>>

NoBucket == [present |-> FALSE, count |-> 0, resetAt |-> 0]

IdleRateLimit ==
    /\ limit = 1
    /\ window = 1
    /\ buckets = [k \in Keys |-> NoBucket]
    /\ allowed = [key |-> "", ok |-> FALSE]
    /\ winCount = [k \in Keys |-> 0]
    /\ winEnd = [k \in Keys |-> -1]
    /\ shadow = [k \in Keys |-> NoBucket]

CallReady(pols) ==
    /\ now = 0
    /\ \E pol \in pols :
          /\ policy = [u \in Upstreams |-> pol]
          /\ cb = [u \in Upstreams |-> New(pol.maxFailures, pol.resetTimeout)]
    /\ target = [p \in Callers |-> IF p = 1 THEN 1 ELSE 0]
    /\ pc = [p \in Callers |-> "idle"]
    /\ attempt = [p \in Callers |-> 0]
    /\ ctxDone = [p \in Callers |-> FALSE]
    /\ resp = [p \in Callers |-> EmptyResp]
    /\ ret = [p \in Callers |-> NoResp]
    /\ calls = 0
    /\ hits = [p \in Callers |-> 0]
    /\ stopped = [p \in Callers |-> FALSE]
    /\ stopResp = [p \in Callers |-> NoResp]
    /\ streak = [u \in Upstreams |-> 0]
    /\ lastFailEnd = [u \in Upstreams |-> 0]
    /\ IdleDispatch
    /\ IdleRateLimit
    /\ IdleRouter
    /\ IdleForward
    /\ IdleUnit

InitCall == CallReady(Policies)

InitMapStatus == CallReady(MapStatusPolicies)

NextCall ==
    \/ (\E p \in Callers : CallStart(p)) /\ UNCHANGED <<dispVars, rlVars, aggVars, fwdVars, unitVars>>
    \/ (\E p \in Callers : LoopHead(p)) /\ UNCHANGED <<dispVars, rlVars, aggVars, fwdVars, unitVars>>
    \/ (\E p \in Callers : \E o \in Replies(target[p], ctxDone[p]) : AttemptDone(p, o))
          /\ UNCHANGED <<dispVars, rlVars, aggVars, fwdVars, unitVars>>
    \/ (\E p \in Callers : BackoffElapsed(p)) /\ UNCHANGED <<dispVars, rlVars, aggVars, fwdVars, unitVars>>
    \/ (\E p \in Callers : BackoffCanceled(p)) /\ UNCHANGED <<dispVars, rlVars, aggVars, fwdVars, unitVars>>
    \/ (\E p \in Callers : Cancel(p)) /\ UNCHANGED <<dispVars, rlVars, aggVars, fwdVars, unitVars>>
    \/ Tick /\ UNCHANGED <<dispVars, rlVars, aggVars, fwdVars, unitVars>>

SpecCall == InitCall /\ [][NextCall]_vars

SpecMapStatus == InitMapStatus /\ [][NextCall]_vars

----------------------------------------------------------------------------
(* defaultDispatcher.dispatch: one task per upstream of the flow, run under a  *)
(* semaphore of maxParallelUpstreams slots; task i stores the value of         *)
(* flow.Upstreams[i].Call in results[i]; dispatch returns when all are done.   *)

\* runtime.NumCPU()
NumCPU == 1

\* ensureGatewayDefaults: MaxParallelUpstreams below 1 becomes 2 * NumCPU.
ensureGatewayDefaults(maxParallelUpstreams) ==
    IF maxParallelUpstreams < 1 THEN 2 * NumCPU ELSE maxParallelUpstreams

SlotAlwaysFree(held, size) == TRUE

\* The semaphore of size maxParallelUpstreams has a free slot.
SlotFree(held, size) == held < size

DispatchPolicies ==
    {Policy(mr, {}, FALSE, 0, br, 1, 1) : mr \in 0..1, br \in BOOLEAN}

InitDispatch ==
    /\ now = 0
    /\ \E pol \in DispatchPolicies :
          /\ policy = [u \in Upstreams |-> pol]
          /\ cb = [u \in Upstreams |-> New(pol.maxFailures, pol.resetTimeout)]
    /\ target = [p \in Callers |-> p]
    /\ pc = [p \in Callers |-> "idle"]
    /\ attempt = [p \in Callers |-> 0]
    /\ ctxDone = [p \in Callers |-> FALSE]
    /\ resp = [p \in Callers |-> EmptyResp]
    /\ ret = [p \in Callers |-> NoResp]
    /\ calls = 0
    /\ hits = [p \in Callers |-> 0]
    /\ stopped = [p \in Callers |-> FALSE]
    /\ stopResp = [p \in Callers |-> NoResp]
    /\ streak = [u \in Upstreams |-> 0]
    /\ lastFailEnd = [u \in Upstreams |-> 0]
    /\ maxParallel \in {ensureGatewayDefaults(c) : c \in 0..NumUpstreams}
    /\ dstate = "idle"
    /\ reqDone = FALSE
    /\ task = [p \in Callers |-> "waiting"]
    /\ sem = 0
    /\ results = [p \in Callers |-> NoResp]
    /\ returned = <<>>
    /\ IdleRateLimit
    /\ IdleRouter
    /\ IdleForward
    /\ IdleUnit

DispatchStart ==
    /\ dstate = "idle"
    /\ dstate' = "running"
    /\ results' = [p \in Callers |-> NoResp]
    /\ task' = [p \in Callers |-> "waiting"]
    /\ UNCHANGED <<maxParallel, reqDone, sem, returned>>
    /\ UNCHANGED callVars

\* Task i acquires a slot and enters flow.Upstreams[i].Call.
TaskAcquire(i) ==
    /\ dstate = "running"
    /\ task[i] = "waiting"
    /\ SlotFree(sem, maxParallel)
    /\ sem' = sem + 1
    /\ task' = [task EXCEPT ![i] = "running"]
    /\ CallBegin(i, reqDone)
    /\ UNCHANGED <<maxParallel, dstate, reqDone, results, returned>>

\* A dispatcher that appends results as the tasks complete.
StoreInCompletionOrder(res, i, r) ==
    LET free == {j \in DOMAIN res : res[j] = NoResp}
        first == CHOOSE j \in free : \A h \in free : j <= h
    IN [res EXCEPT ![first] = r]

StoreByIndex(res, i, r) == [res EXCEPT ![i] = r]

\* Call has returned: the task stores its value in its own slot and releases.
TaskStore(i) ==
    /\ dstate = "running"
    /\ task[i] = "running"
    /\ pc[i] = "done"
    /\ results' = StoreByIndex(results, i, ret[i])
    /\ sem' = sem - 1
    /\ task' = [task EXCEPT ![i] = "finished"]
    /\ UNCHANGED <<maxParallel, dstate, reqDone, returned>>
    /\ UNCHANGED callVars

\* wg.Wait() has returned: every task is finished.
DispatchReturn ==
    /\ dstate = "running"
    /\ \A i \in Callers : task[i] = "finished"
    /\ dstate' = "returned"
    /\ returned' = [i \in 1..NumUpstreams |-> results[i]]
    /\ UNCHANGED <<maxParallel, reqDone, task, sem, results>>
    /\ UNCHANGED callVars

\* The client goes away: the request's context, which every task shares, is canceled.
CancelRequest ==
    /\ dstate = "running"
    /\ ~reqDone
    /\ reqDone' = TRUE
    /\ ctxDone' = [p \in Callers |-> TRUE]
    /\ UNCHANGED <<maxParallel, dstate, task, sem, results, returned>>
    /\ UNCHANGED <<now, policy, cb, target, pc, attempt, resp, ret, calls, hits, stopped,
                   stopResp, streak, lastFailEnd>>

NextDispatch ==
    \/ DispatchStart /\ UNCHANGED <<rlVars, aggVars, fwdVars, unitVars>>
    \/ (\E i \in Callers : TaskAcquire(i)) /\ UNCHANGED <<rlVars, aggVars, fwdVars, unitVars>>
    \/ (\E i \in Callers : TaskStore(i)) /\ UNCHANGED <<rlVars, aggVars, fwdVars, unitVars>>
    \/ DispatchReturn /\ UNCHANGED <<rlVars, aggVars, fwdVars, unitVars>>
    \/ CancelRequest /\ UNCHANGED <<rlVars, aggVars, fwdVars, unitVars>>
    \/ (\E p \in Callers : LoopHead(p)) /\ UNCHANGED <<dispVars, rlVars, aggVars, fwdVars, unitVars>>
    \/ (\E p \in Callers : \E o \in Replies(target[p], ctxDone[p]) : AttemptDone(p, o))
          /\ UNCHANGED <<dispVars, rlVars, aggVars, fwdVars, unitVars>>

SpecDispatch == InitDispatch /\ [][NextDispatch]_vars

----------------------------------------------------------------------------
(* ratelimit.RateLimit: a fixed-window counter per key.  Allow and cleanup     *)
(* each run under rl.mu, so each is one step.                                  *)

Max(a, b) == IF a > b THEN a ELSE b

\* A limiter that admits while count <= limit.
CountBelowOrAtLimit(count, lim) == count <= lim

CountBelowLimit(count, lim) == count < lim

InitRateLimit ==
    /\ now = 0
    /\ policy = [u \in Upstreams |-> Policy(0, {}, FALSE, 0, FALSE, 1, 1)]
    /\ cb = [u \in Upstreams |-> New(1, 1)]
    /\ target = [p \in Callers |-> 0]
    /\ pc = [p \in Callers |-> "idle"]
    /\ attempt = [p \in Callers |-> 0]
    /\ ctxDone = [p \in Callers |-> FALSE]
    /\ resp = [p \in Callers |-> EmptyResp]
    /\ ret = [p \in Callers |-> NoResp]
    /\ calls = 0
    /\ hits = [p \in Callers |-> 0]
    /\ stopped = [p \in Callers |-> FALSE]
    /\ stopResp = [p \in Callers |-> NoResp]
    /\ streak = [u \in Upstreams |-> 0]
    /\ lastFailEnd = [u \in Upstreams |-> 0]
    /\ IdleDispatch
    /\ limit \in 0..MaxLimit
    /\ window \in 0..MaxWindow
    /\ buckets = [k \in Keys |-> NoBucket]
    /\ allowed = [key |-> "", ok |-> FALSE]
    /\ winCount = [k \in Keys |-> 0]
    /\ winEnd = [k \in Keys |-> -1]
    /\ shadow = [k \in Keys |-> NoBucket]
    /\ IdleRouter
    /\ IdleForward
    /\ IdleUnit

\* The bucket of key after Allow(key) at time t, and what Allow returns.
AllowBucket(ent, t) ==
    IF ~ent.present \/ t > ent.resetAt
    THEN [present |-> TRUE, count |-> 1, resetAt |-> t + window]
    ELSE IF CountBelowLimit(ent.count, limit)
    THEN [ent EXCEPT !.count = ent.count + 1]
    ELSE ent

AllowReturn(ent, t) ==
    IF ~ent.present \/ t > ent.resetAt THEN TRUE
    ELSE CountBelowLimit(ent.count, limit)

Allow(key) ==
    LET ok == AllowReturn(buckets[key], now)
        fresh == winEnd[key] < 0 \/ now > winEnd[key]
    IN /\ buckets' = [buckets EXCEPT ![key] = AllowBucket(buckets[key], now)]
       /\ shadow' = [shadow EXCEPT ![key] = AllowBucket(shadow[key], now)]
       /\ allowed' = [key |-> key, ok |-> ok]
       /\ winEnd' = [winEnd EXCEPT ![key] = IF fresh THEN now + window ELSE @]
       /\ winCount' = [winCount EXCEPT ![key] =
                          (IF fresh THEN 0 ELSE @) + (IF ok THEN 1 ELSE 0)]
       /\ UNCHANGED <<limit, window>>
       /\ UNCHANGED <<callVars, dispVars, aggVars, fwdVars, unitVars>>

ExpiredAtReset(ent, t) == t >= ent.resetAt

\* now.After(ent.resetAt)
Expired(ent, t) == t > ent.resetAt

cleanup ==
    /\ buckets' = [k \in Keys |->
                      IF buckets[k].present /\ Expired(buckets[k], now)
                      THEN NoBucket ELSE buckets[k]]
    /\ UNCHANGED <<limit, window, allowed, winCount, winEnd, shadow>>
    /\ UNCHANGED <<callVars, dispVars, aggVars, fwdVars, unitVars>>

RateLimitTick ==
    /\ now < MaxTime
    /\ now' = now + 1
    /\ UNCHANGED <<policy, cb, target, pc, attempt, ctxDone, resp, ret, calls, hits,
                   stopped, stopResp, streak, lastFailEnd>>
    /\ UNCHANGED <<dispVars, rlVars, aggVars, fwdVars, unitVars>>

NextRateLimit ==
    \/ \E key \in Keys : Allow(key)
    \/ cleanup
    \/ RateLimitTick

SpecRateLimit == InitRateLimit /\ [][NextRateLimit]_vars

----------------------------------------------------------------------------
(* Router.ServeHTTP: one request through the pipeline.  The matched flow's     *)
(* aggregation and the responses its dispatch produced are the inputs.         *)

Strategies == {strategyMerge, strategyArray, strategyNamespace}

ConflictPolicies ==
    {conflictPolicyOverwrite, conflictPolicyError, conflictPolicyFirst, conflictPolicyPrefer}

\* The aggregations initAggregation builds for a flow of n upstreams.
Aggregations(n) ==
    {initAggregation(s, be, cp, idx) :
        s \in Strategies, be \in BOOLEAN, cp \in ConflictPolicies, idx \in 0..(n - 1)}

\* What an upstream's Call hands back: an error of some kind, or a body.
UpstreamOutcomes ==
    {UpstreamResponse(0, NilBody, UpstreamError(UpstreamTimeout, "deadline")),
     UpstreamResponse(0, NilBody, UpstreamError(UpstreamConnection, "other")),
     UpstreamResponse(500, NilBody, UpstreamError(UpstreamBadStatus, "other")),
     UpstreamResponse(200, NilBody, UpstreamError(UpstreamBodyTooLarge, "nil")),
     UpstreamResponse(0, NilBody, UpstreamError(UpstreamCircuitOpen, "other")),
     UpstreamResponse(0, NilBody, UpstreamError(UpstreamCanceled, "canceled"))}
    \cup {UpstreamResponse(200, b, NoErr) :
            b \in {NilBody, NullBody, BadBody, BytesBody(0, 0), BytesBody(0, 1)}
                  \cup {ObjBody(o) : o \in [Keys -> {0, 1}]}}

Paths ==
    {"no_match", "rate_limited", "request_plugin_error", "lua_error", "lua_abort",
     "dispatch_nil", "response_plugin_error", "ok"}

\* call keeps hresp.Header when the exchange succeeded with a status below 500.
hasHeaders(r) == r.Err.Kind \in {"none", UpstreamBodyTooLarge, UpstreamReadError}

\* A request is about to be served: the flow has one of the given numbers of
\* upstreams and its dispatch produced responses among the given outcomes.
RouterReadyWith(sizes, outcomes, hdrs, routes) ==
    /\ now = 0
    /\ policy = [u \in Upstreams |-> Policy(0, {}, FALSE, 0, FALSE, 1, 1)]
    /\ cb = [u \in Upstreams |-> New(1, 1)]
    /\ target = [p \in Callers |-> 0]
    /\ pc = [p \in Callers |-> "idle"]
    /\ attempt = [p \in Callers |-> 0]
    /\ ctxDone = [p \in Callers |-> FALSE]
    /\ resp = [p \in Callers |-> EmptyResp]
    /\ ret = [p \in Callers |-> NoResp]
    /\ calls = 0
    /\ hits = [p \in Callers |-> 0]
    /\ stopped = [p \in Callers |-> FALSE]
    /\ stopResp = [p \in Callers |-> NoResp]
    /\ streak = [u \in Upstreams |-> 0]
    /\ lastFailEnd = [u \in Upstreams |-> 0]
    /\ IdleDispatch
    /\ IdleRateLimit
    /\ IdleForward
    /\ IdleUnit
    /\ \E n \in sizes :
          /\ responses \in [1..n -> outcomes]
          /\ aggregation \in Aggregations(n)
          /\ upHeaders \in {f \in [1..n -> hdrs] :
                               \A i \in 1..n : hasHeaders(responses[i])
                                                   \/ f[i] = NoRespHeader}
    /\ srv = "ready"
    /\ path = "none"
    /\ aggregated = AggregatedResponse(NilData, <<>>, FALSE)
    /\ status = 0
    /\ responseBody = NoEnvelope
    /\ written = [code |-> 0, env |-> NoEnvelope]
    /\ outHeader = NoOutHeader
    /\ \E route \in routes : flows = route.flows /\ httpReq = route.req
    /\ stages = <<>>

RouterReady(sizes, outcomes) ==
    RouterReadyWith(sizes, outcomes, {NoRespHeader}, {DefaultRoute})

InitRouter == RouterReady(1..MaxResponses, UpstreamOutcomes)

\* Flows of one or two upstreams whose answers carry headers of their own.
RespHeaders ==
    {[k \in RespKeys |->
        CASE k = "Content-Type" -> ct [] k = "X-Request-Id" -> rid
          [] k = "X-Up" -> up [] OTHER -> <<>>] :
        ct \in {<<>>, <<"text/html">>}, rid \in {<<>>, <<"up-1">>},
        up \in {<<>>, <<"a">>, <<"b">>}}

InitHeaders ==
    RouterReadyWith({1, 2},
                    {UpstreamResponse(0, NilBody, UpstreamError(UpstreamTimeout, "deadline")),
                     UpstreamResponse(200, ObjBody([k \in Keys |-> 1]), NoErr)},
                    RespHeaders, {DefaultRoute})

\* A flow with one upstream, which answers with any status below 500.
SingleOutcomes ==
    {r \in UpstreamOutcomes : r.Err.Kind # "none"}
    \cup {UpstreamResponse(st, r.Body, NoErr) :
            st \in {200, 404}, r \in {q \in UpstreamOutcomes : q.Err.Kind = "none"}}

InitSingle == RouterReady({1}, SingleOutcomes)

\* The request takes path e: it is turned away before dispatch, or it is
\* dispatched, aggregated and answered (a failing response plugin replaces the
\* answer by an internal error).  A panic in aggregate ends the handler with
\* nothing written.
ServeHTTP(e) ==
    LET reached == e \in {"ok", "response_plugin_error"}
        agg == aggregate(responses, aggregation)
        answered == reached /\ ~agg.Panic
        matchedFlow == match(flows, httpReq)
        plugins == IF matchedFlow = 0 THEN <<>> ELSE flows[matchedFlow].Plugins
    IN /\ srv = "ready"
       /\ (e = "no_match") = (matchedFlow = 0)
       /\ \E f \in Failing(e, plugins) :
             stages' = stagesOf(e, f, plugins, reached /\ agg.Panic)
       /\ srv' = "done"
       /\ path' = e
       /\ aggregated' = IF reached THEN agg ELSE aggregated
       /\ status' = IF answered THEN chooseStatus(agg) ELSE 0
       /\ responseBody' = IF answered THEN chooseBody(agg) ELSE NoEnvelope
       /\ written' =
            CASE e = "no_match" -> [code |-> 404, env |-> TextEnvelope]
              [] e = "rate_limited" -> WriteError(ClientErrRateLimitExceeded, 429)
              [] e \in {"request_plugin_error", "lua_error"} -> WriteError(ClientErrInternal, 500)
              [] e = "lua_abort" -> WriteError(ClientErrAborted, 403)
              [] e = "dispatch_nil" -> WriteError(ClientErrPayloadTooLarge, 413)
              [] reached /\ agg.Panic -> [code |-> 0, env |-> NoEnvelope]
              [] e = "response_plugin_error" -> WriteError(ClientErrInternal, 500)
              [] OTHER -> [code |-> chooseStatus(agg), env |-> chooseBody(agg)]
       /\ outHeader' \in
            CASE e = "no_match" -> {contentTypeOnly("text/plain; charset=utf-8")}
              [] e \in {"rate_limited", "request_plugin_error", "lua_error", "lua_abort",
                        "dispatch_nil", "response_plugin_error"} ->
                    {contentTypeOnly("application/json")}
              [] reached /\ agg.Panic -> {NoOutHeader}
              [] OTHER -> copyResponse(pluginHeaders(responseHeaders(upHeaders), plugins))
       /\ UNCHANGED <<responses, aggregation, upHeaders, flows, httpReq>>
       /\ UNCHANGED <<callVars, dispVars, rlVars, fwdVars, unitVars>>

NextRouter == \E e \in Paths : ServeHTTP(e)

SpecRouter == InitRouter /\ [][NextRouter]_vars

SpecSingle == InitSingle /\ [][NextRouter]_vars

SpecHeaders == InitHeaders /\ [][NextRouter]_vars

\* Routers of up to two flows, each with plugins of its own, and the requests
\* that match the first, the second or no flow.
Routes ==
    LET pluginLists ==
            {<<>>,
             <<Plugin(PluginTypeResponse, FALSE)>>,
             <<Plugin(PluginTypeRequest, FALSE), Plugin(PluginTypeResponse, TRUE),
               Plugin(PluginTypeRequest, FALSE), Plugin(PluginTypeResponse, FALSE)>>}
        flow == {Flow(m, p, pl) : m \in {"GET", "post"}, p \in {"/a", "/b"},
                                  pl \in pluginLists}
    IN {[flows |-> fs, req |-> [Method |-> m, Path |-> p]] :
            fs \in {<<>>} \cup {<<f>> : f \in flow} \cup {<<f, g>> : f, g \in flow},
            m \in {"GET", "get", "POST"}, p \in {"/a", "/b"}}

InitPipeline ==
    RouterReadyWith({1},
                    {UpstreamResponse(0, NilBody, UpstreamError(UpstreamTimeout, "deadline")),
                     UpstreamResponse(200, ObjBody([k \in Keys |-> 1]), NoErr)},
                    {NoRespHeader}, Routes)

SpecPipeline == InitPipeline /\ [][NextRouter]_vars

----------------------------------------------------------------------------
(* newRequest builds the request for one upstream. *)

InitForward ==
    /\ now = 0
    /\ policy = [u \in Upstreams |-> Policy(0, {}, FALSE, 0, FALSE, 1, 1)]
    /\ cb = [u \in Upstreams |-> New(1, 1)]
    /\ target = [p \in Callers |-> 0]
    /\ pc = [p \in Callers |-> "idle"]
    /\ attempt = [p \in Callers |-> 0]
    /\ ctxDone = [p \in Callers |-> FALSE]
    /\ resp = [p \in Callers |-> EmptyResp]
    /\ ret = [p \in Callers |-> NoResp]
    /\ calls = 0
    /\ hits = [p \in Callers |-> 0]
    /\ stopped = [p \in Callers |-> FALSE]
    /\ stopResp = [p \in Callers |-> NoResp]
    /\ streak = [u \in Upstreams |-> 0]
    /\ lastFailEnd = [u \in Upstreams |-> 0]
    /\ IdleDispatch
    /\ IdleRateLimit
    /\ IdleRouter
    /\ forwardHeaders \in ForwardConfigs
    /\ trustedProxies \in {{}, {"10.0.0.0/8"}}
    /\ \E h \in InboundHeaders, a \in {"1.2.3.4:12345", "10.0.1.5:12345", "@"},
          t \in BOOLEAN, host \in {"example.com", "example.com:8443"} :
          original = Request(h, a, t, host)
    /\ fwState = "ready"
    /\ targetHeader = EmptyHeader
    /\ IdleUnit

\* newRequest calls resolveHeaders; on an error no request is sent.
ResolveHeaders ==
    LET r == resolveHeaders(forwardHeaders, trustedProxies, original)
    IN /\ fwState = "ready"
       /\ fwState' = IF r.err THEN "failed" ELSE "resolved"
       /\ targetHeader' = IF r.err THEN EmptyHeader ELSE r.Header
       /\ UNCHANGED <<forwardHeaders, trustedProxies, original>>
       /\ UNCHANGED <<callVars, dispVars, rlVars, aggVars, unitVars>>

SpecForward == InitForward /\ [][ResolveHeaders]_vars

----------------------------------------------------------------------------
(* call reads the answer of the upstream server. *)

\* The server answers with some status and a body of 0 to MaxBodyLen + 2 bytes;
\* the policy's MaxResponseBodySize is 0 (no limit) to MaxBodyLen + 1.
InitBody ==
    /\ \E L \in 0..(MaxBodyLen + 1) : IdleCall(Policy(0, {}, FALSE, L, FALSE, 1, 1))
    /\ IdleDispatch
    /\ IdleRateLimit
    /\ IdleRouter
    /\ IdleForward
    /\ unit = "ready"
    /\ reply \in [tr : {"ok"}, status : {200, 204, 404, 500},
                  n : 0..(MaxBodyLen + 2), rf : BOOLEAN]
    /\ got = NoResp
    /\ bytesRead = 0
    /\ IdleHosts
    /\ IdleBreaker
    /\ IdleMore

ReadBody ==
    /\ unit = "ready"
    /\ unit' = "done"
    /\ got' = call(1, reply, policy[1].maxBody)
    /\ bytesRead' = IF reply.status >= 500 THEN 0
                    ELSE readLen(reply.n, policy[1].maxBody)
    /\ UNCHANGED <<reply, numHosts, currentHostIdx, selHost, selections, sentTo, brkVars, moreVars>>
    /\ UNCHANGED <<callVars, dispVars, rlVars, aggVars, fwdVars>>

SpecBody == InitBody /\ [][ReadBody]_vars

----------------------------------------------------------------------------
(* selectHost under LBModeRoundRobin, called by concurrent attempts. *)

selectHostFirst(idx, n) == 0

\* selectedHost for the value idx that atomic.AddInt64 returned
selectHost(idx, n) == IF n = 1 THEN 0 ELSE idx % n

InitHosts ==
    /\ IdleCall(Policy(0, {}, FALSE, 0, FALSE, 1, 1))
    /\ IdleDispatch
    /\ IdleRateLimit
    /\ IdleRouter
    /\ IdleForward
    /\ unit = "ready"
    /\ reply = [tr |-> "ok", status |-> 200, n |-> 0, rf |-> FALSE]
    /\ got = NoResp
    /\ bytesRead = 0
    /\ numHosts \in 2..MaxHosts
    /\ currentHostIdx = 0
    /\ selHost = [p \in Callers |-> -1]
    /\ selections = <<>>
    /\ sentTo = [h \in 0..(MaxHosts - 1) |-> 0]
    /\ IdleBreaker
    /\ IdleMore

\* An attempt of caller p selects its host: one atomic addition, then the modulo.
SelectHost(p) ==
    /\ unit = "ready"
    /\ selHost[p] = -1
    /\ Len(selections) < MaxSelections
    /\ currentHostIdx' = currentHostIdx + 1
    /\ selHost' = [selHost EXCEPT ![p] = selectHost(currentHostIdx', numHosts)]
    /\ selections' = Append(selections, selHost'[p])
    /\ UNCHANGED <<unit, reply, got, bytesRead, numHosts, sentTo, brkVars, moreVars>>
    /\ UNCHANGED <<callVars, dispVars, rlVars, aggVars, fwdVars>>

\* The attempt sends its request to u.hosts[selectedHost].
SendToHost(p) ==
    /\ unit = "ready"
    /\ selHost[p] # -1
    /\ sentTo' = [sentTo EXCEPT ![selHost[p]] = @ + 1]
    /\ selHost' = [selHost EXCEPT ![p] = -1]
    /\ UNCHANGED <<unit, reply, got, bytesRead, numHosts, currentHostIdx, selections,
                   brkVars, moreVars>>
    /\ UNCHANGED <<callVars, dispVars, rlVars, aggVars, fwdVars>>

NextHosts ==
    \/ \E p \in Callers : SelectHost(p)
    \/ \E p \in Callers : SendToHost(p)

SpecHosts == InitHosts /\ [][NextHosts]_vars

----------------------------------------------------------------------------
(* The circuit breaker on its own: its callers call Allow, OnFailure and    *)
(* OnSuccess in any order (each runs under b.mu), and time passes.          *)

InitBreaker ==
    /\ IdleCall(Policy(0, {}, FALSE, 0, FALSE, 1, 1))
    /\ IdleDispatch
    /\ IdleRateLimit
    /\ IdleRouter
    /\ IdleForward
    /\ unit = "ready"
    /\ reply = [tr |-> "ok", status |-> 200, n |-> 0, rf |-> FALSE]
    /\ got = NoResp
    /\ bytesRead = 0
    /\ IdleHosts
    /\ \E mf \in 1..MaxFailuresBound, rt \in 0..MaxResetTimeout : circuit = New(mf, rt)
    /\ clock = 0
    /\ run = 0
    /\ halfOpenAllows = 0
    /\ probes = 0
    /\ lastOp = NoOp
    /\ IdleMore

BreakerRest ==
    /\ UNCHANGED <<unit, reply, got, bytesRead, numHosts, currentHostIdx, selHost,
                   selections, sentTo, moreVars>>
    /\ UNCHANGED <<callVars, dispVars, rlVars, aggVars, fwdVars>>

BreakerAllow ==
    LET ok == AllowResult(circuit, clock)
        entering == circuit.state = Open /\ ok
    IN  /\ unit = "ready"
        /\ circuit' = AllowState(circuit, clock)
        /\ lastOp' = [op |-> "Allow", ret |-> ok, pre |-> circuit, at |-> clock,
                   admitted |-> "none"]
        /\ halfOpenAllows' = IF entering THEN 0
                             ELSE IF circuit.state = HalfOpen
                                  THEN Min(halfOpenAllows + 1, MaxCalls)
                                  ELSE halfOpenAllows
        /\ probes' = IF entering THEN 1
                     ELSE IF circuit.state = HalfOpen /\ ok THEN probes + 1
                     ELSE probes
        /\ UNCHANGED <<clock, run>>
        /\ BreakerRest

BreakerOnFailure ==
    /\ unit = "ready"
    /\ circuit' = OnFailure(circuit, clock)
    /\ lastOp' = [op |-> "OnFailure", ret |-> FALSE, pre |-> circuit, at |-> clock,
                   admitted |-> "none"]
    /\ run' = Min(run + 1, MaxFailuresBound + 1)
    /\ halfOpenAllows' = 0
    /\ probes' = 0
    /\ UNCHANGED clock
    /\ BreakerRest

BreakerOnSuccess ==
    /\ unit = "ready"
    /\ circuit' = OnSuccess(circuit)
    /\ lastOp' = [op |-> "OnSuccess", ret |-> FALSE, pre |-> circuit, at |-> clock,
                   admitted |-> "none"]
    /\ run' = 0
    /\ halfOpenAllows' = 0
    /\ probes' = 0
    /\ UNCHANGED clock
    /\ BreakerRest

BreakerTick ==
    /\ unit = "ready"
    /\ clock < MaxTime
    /\ clock' = clock + 1
    /\ UNCHANGED <<circuit, run, halfOpenAllows, probes, lastOp>>
    /\ BreakerRest

NextBreaker ==
    \/ BreakerAllow
    \/ BreakerOnFailure
    \/ BreakerOnSuccess
    \/ BreakerTick

SpecBreaker == InitBreaker /\ [][NextBreaker]_vars

----------------------------------------------------------------------------
(* One breaker shared by the concurrent Calls of an upstream: each caller    *)
(* asks Allow, performs its attempt when admitted, and reports the outcome.  *)

UnitRest ==
    /\ UNCHANGED <<unit, reply, got, bytesRead, numHosts, currentHostIdx, selHost,
                   selections, sentTo>>
    /\ UNCHANGED <<callVars, dispVars, rlVars, aggVars, fwdVars>>

InitShared ==
    /\ IdleCall(Policy(0, {}, FALSE, 0, FALSE, 1, 1))
    /\ IdleDispatch
    /\ IdleRateLimit
    /\ IdleRouter
    /\ IdleForward
    /\ unit = "shared"
    /\ reply = [tr |-> "ok", status |-> 200, n |-> 0, rf |-> FALSE]
    /\ got = NoResp
    /\ bytesRead = 0
    /\ IdleHosts
    /\ \E mf \in 1..MaxFailuresBound, rt \in 0..MaxResetTimeout : circuit = New(mf, rt)
    /\ clock = 0
    /\ run = 0
    /\ halfOpenAllows = 0
    /\ probes = 0
    /\ lastOp = NoOp
    /\ admit = [p \in Callers |-> "none"]
    /\ IdleLeastConns
    /\ IdleTail

\* u.circuitBreaker.Allow() of caller p; a denied caller returns circuit_open.
SharedAllow(p) ==
    LET ok == AllowResult(circuit, clock) IN
    /\ unit = "shared"
    /\ admit[p] = "none"
    /\ circuit' = AllowState(circuit, clock)
    /\ admit' = [admit EXCEPT ![p] = IF ok THEN circuit.state ELSE "none"]
    /\ lastOp' = [op |-> "Allow", ret |-> ok, pre |-> circuit, at |-> clock,
                  admitted |-> "none"]
    /\ UNCHANGED <<clock, run, halfOpenAllows, probes, lcVars, tailVars>>
    /\ UnitRest

\* The attempt of caller p ends and Call feeds the breaker.
SharedReport(p, failed) ==
    /\ unit = "shared"
    /\ admit[p] # "none"
    /\ circuit' = IF failed THEN OnFailure(circuit, clock) ELSE OnSuccess(circuit)
    /\ admit' = [admit EXCEPT ![p] = "none"]
    /\ lastOp' = [op |-> IF failed THEN "OnFailure" ELSE "OnSuccess", ret |-> FALSE,
                  pre |-> circuit, at |-> clock, admitted |-> admit[p]]
    /\ UNCHANGED <<clock, run, halfOpenAllows, probes, lcVars, tailVars>>
    /\ UnitRest

SharedTick ==
    /\ unit = "shared"
    /\ clock < MaxTime
    /\ clock' = clock + 1
    /\ UNCHANGED <<circuit, run, halfOpenAllows, probes, lastOp, admit, lcVars, tailVars>>
    /\ UnitRest

NextShared ==
    \/ \E p \in Callers : SharedAllow(p)
    \/ \E p \in Callers, failed \in BOOLEAN : SharedReport(p, failed)
    \/ SharedTick

SpecShared == InitShared /\ [][NextShared]_vars

----------------------------------------------------------------------------
(* call() around selectHost in the modes least_conns and none, by concurrent *)
(* callers: the loop of selectHost loads one counter per step.               *)

lessOrEqualMin(cur, m) == m.top \/ cur <= m.v

\* if curHostActiveConns < minActiveConns
lessThanMin(cur, m) == m.top \/ cur < m.v

\* the deferred atomic.AddInt64(..., -1): it runs on every exit of call()
releasedOnSuccessOnly(mode, exit) == IF mode = LBModeLeastConns /\ exit = "ok" THEN 1 ELSE 0

released(mode, exit) == IF mode = LBModeLeastConns THEN 1 ELSE 0

Exits == {"ok", UpstreamConnection, UpstreamBadStatus, UpstreamReadError,
          UpstreamBodyTooLarge, UpstreamInternal}

LcRest ==
    /\ UNCHANGED <<brkVars, admit, tailVars>>
    /\ UnitRest

InitLeastConns ==
    /\ IdleCall(Policy(0, {}, FALSE, 0, FALSE, 1, 1))
    /\ IdleDispatch
    /\ IdleRateLimit
    /\ IdleRouter
    /\ IdleForward
    /\ unit = "least_conns"
    /\ reply = [tr |-> "ok", status |-> 200, n |-> 0, rf |-> FALSE]
    /\ got = NoResp
    /\ bytesRead = 0
    /\ numHosts \in 1..MaxHosts
    /\ currentHostIdx = 0
    /\ selHost = [p \in Callers |-> -1]
    /\ selections = <<>>
    /\ sentTo = [h \in 0..(MaxHosts - 1) |-> 0]
    /\ IdleBreaker
    /\ admit = [p \in Callers |-> "none"]
    /\ lbMode \in {LBModeLeastConns, LBModeNone}
    /\ activeConnections = [h \in 0..(MaxHosts - 1) |-> 0]
    /\ lc = [p \in Callers |-> NoCall]
    /\ lcReturned = FALSE
    /\ IdleTail

\* call() of caller p enters selectHost: one host, or the switch on the mode.
LcSelectHost(p) ==
    /\ unit = "least_conns"
    /\ lc[p].pc = "idle"
    /\ lc' = [lc EXCEPT ![p] =
                IF numHosts = 1 \/ lbMode # LBModeLeastConns
                THEN [NoCall EXCEPT !.pc = "selected"]
                ELSE [NoCall EXCEPT !.pc = "scan"]]
    /\ UNCHANGED <<lbMode, activeConnections, lcReturned>>
    /\ LcRest

\* One iteration of `for i := range u.hosts`: an atomic load and the comparison.
LcLoad(p) ==
    LET c == lc[p]
        cur == activeConnections[c.i]
        better == lessThanMin(cur, c.min)
        last == c.i + 1 = numHosts
        nbest == IF better THEN c.i ELSE c.best
    IN
    /\ unit = "least_conns"
    /\ c.pc = "scan"
    /\ lc' = [lc EXCEPT ![p] =
                [pc |-> IF last THEN "selected" ELSE "scan",
                 i |-> c.i + 1,
                 best |-> nbest,
                 min |-> IF better THEN [top |-> FALSE, v |-> cur] ELSE c.min,
                 reads |-> Append(c.reads, cur),
                 host |-> IF last THEN nbest ELSE 0]]
    /\ UNCHANGED <<lbMode, activeConnections, lcReturned>>
    /\ LcRest

\* atomic.AddInt64(&u.activeConnections[selectedHost], 1) in mode least_conns
LcAcquire(p) ==
    /\ unit = "least_conns"
    /\ lc[p].pc = "selected"
    /\ lc' = [lc EXCEPT ![p].pc = "inflight"]
    /\ activeConnections' =
          IF lbMode = LBModeLeastConns
          THEN [activeConnections EXCEPT ![lc[p].host] = @ + 1]
          ELSE activeConnections
    /\ UNCHANGED <<lbMode, lcReturned>>
    /\ LcRest

\* call() returns by one of its exits; the deferred decrement runs.
LcReturn(p, exit) ==
    /\ unit = "least_conns"
    /\ lc[p].pc = "inflight"
    /\ lc' = [lc EXCEPT ![p] = NoCall]
    /\ activeConnections' =
          [activeConnections EXCEPT ![lc[p].host] = @ - released(lbMode, exit)]
    /\ lcReturned' = TRUE
    /\ UNCHANGED lbMode
    /\ LcRest

NextLeastConns ==
    \/ \E p \in Callers : LcSelectHost(p)
    \/ \E p \in Callers : LcLoad(p)
    \/ \E p \in Callers : LcAcquire(p)
    \/ \E p \in Callers, exit \in Exits : LcReturn(p, exit)

SpecLeastConns == InitLeastConns /\ [][NextLeastConns]_vars

----------------------------------------------------------------------------
(* resolveQueries: the query of the upstream request. *)

\* url.Values.Get: the first value of the key, "" when it has none
queryGet(q, k) == IF k \in DOMAIN q /\ q[k] # <<>> THEN q[k][1] ELSE ""

\* url.Values.Add
queryAdd(q, k, v) == [q EXCEPT ![k] = Append(@, v)]

\* The loop over forwardQueries: "*" takes the original query and ends the loop;
\* every other entry is looked up as a key, and added when its first value is
\* not empty.
RECURSIVE resolveQueries(_, _, _)
resolveQueries(fqs, q, orig) ==
    IF fqs = <<>> THEN q
    ELSE LET fq == Head(fqs) IN
         IF fq = "*" THEN orig
         ELSE IF queryGet(orig, fq) = "" THEN resolveQueries(Tail(fqs), q, orig)
         ELSE resolveQueries(Tail(fqs), queryAdd(q, fq, queryGet(orig, fq)), orig)

QueryConfigs ==
    {<<>>, <<"foo">>, <<"utm_a">>, <<"utm_*">>, <<"*">>, <<"foo", "*">>, <<"*", "foo">>,
     <<"utm_*", "foo">>, <<"foo", "utm_a">>}

InitQueries ==
    /\ IdleCall(Policy(0, {}, FALSE, 0, FALSE, 1, 1))
    /\ IdleDispatch
    /\ IdleRateLimit
    /\ IdleRouter
    /\ IdleForward
    /\ unit = "queries"
    /\ reply = [tr |-> "ok", status |-> 200, n |-> 0, rf |-> FALSE]
    /\ got = NoResp
    /\ bytesRead = 0
    /\ IdleHosts
    /\ IdleBreaker
    /\ admit = [p \in Callers |-> "none"]
    /\ IdleLeastConns
    /\ forwardQueries \in QueryConfigs
    /\ origQuery \in [QueryKeys -> {<<>>, <<"">>, <<"1">>}]
    /\ targetQuery = EmptyQuery
    /\ qState = "ready"
    /\ IdleStop

ResolveQueries ==
    /\ unit = "queries"
    /\ qState = "ready"
    /\ targetQuery' = resolveQueries(forwardQueries, targetQuery, origQuery)
    /\ qState' = "resolved"
    /\ UNCHANGED <<forwardQueries, origQuery>>
    /\ UNCHANGED <<brkVars, admit, lcVars, stopVars>>
    /\ UnitRest

SpecQueries == InitQueries /\ [][ResolveQueries]_vars

----------------------------------------------------------------------------
(* RateLimit.Start and RateLimit.Stop: the janitor goroutine and the stop    *)
(* channel.  Stop holds rl.mu for its whole body, so it is one step.         *)

neverStopped(s) == FALSE

\* if rl.stopped { return nil }
alreadyStopped(s) == s

InitStop ==
    /\ IdleCall(Policy(0, {}, FALSE, 0, FALSE, 1, 1))
    /\ IdleDispatch
    /\ IdleRateLimit
    /\ IdleRouter
    /\ IdleForward
    /\ unit = "stop"
    /\ reply = [tr |-> "ok", status |-> 200, n |-> 0, rf |-> FALSE]
    /\ got = NoResp
    /\ bytesRead = 0
    /\ IdleHosts
    /\ IdleBreaker
    /\ admit = [p \in Callers |-> "none"]
    /\ IdleLeastConns
    /\ IdleQueries
    /\ rlStopped = FALSE
    /\ closes = 0
    /\ stopReturned = 0
    /\ janitor = "none"
    /\ tickPending = FALSE

StopRest ==
    /\ UNCHANGED <<brkVars, admit, lcVars, qVars>>
    /\ UnitRest

\* Start: the janitor goroutine begins its loop.
Start ==
    /\ unit = "stop"
    /\ janitor = "none"
    /\ janitor' = "select"
    /\ UNCHANGED <<rlStopped, closes, stopReturned, tickPending>>
    /\ StopRest

\* The ticker delivers a tick (cleanupEvery has passed).
TickerFire ==
    /\ unit = "stop"
    /\ janitor \in {"select", "cleanup"}
    /\ ~tickPending
    /\ tickPending' = TRUE
    /\ UNCHANGED <<rlStopped, closes, stopReturned, janitor>>
    /\ StopRest

\* case <-ticker.C: the select takes the tick, also when stopCh is closed as well.
JanitorTick ==
    /\ unit = "stop"
    /\ janitor = "select"
    /\ tickPending
    /\ tickPending' = FALSE
    /\ janitor' = "cleanup"
    /\ UNCHANGED <<rlStopped, closes, stopReturned>>
    /\ StopRest

\* rl.cleanup() of the janitor, under rl.mu.
JanitorCleanup ==
    /\ unit = "stop"
    /\ janitor = "cleanup"
    /\ janitor' = "select"
    /\ buckets' = [k \in Keys |->
                      IF buckets[k].present /\ Expired(buckets[k], now)
                      THEN NoBucket ELSE buckets[k]]
    /\ UNCHANGED <<limit, window, allowed, winCount, winEnd, shadow>>
    /\ UNCHANGED <<rlStopped, closes, stopReturned, tickPending>>
    /\ UNCHANGED <<brkVars, admit, lcVars, qVars>>
    /\ UNCHANGED <<unit, reply, got, bytesRead, numHosts, currentHostIdx, selHost,
                   selections, sentTo>>
    /\ UNCHANGED <<callVars, dispVars, aggVars, fwdVars>>

\* case <-rl.stopCh: return (and the deferred ticker.Stop)
JanitorExit ==
    /\ unit = "stop"
    /\ janitor = "select"
    /\ closes >= 1
    /\ janitor' = "exited"
    /\ tickPending' = FALSE
    /\ UNCHANGED <<rlStopped, closes, stopReturned>>
    /\ StopRest

\* One Stop call, by any goroutine.
Stop ==
    /\ unit = "stop"
    /\ stopReturned < MaxCalls
    /\ closes <= 1
    /\ IF alreadyStopped(rlStopped)
       THEN UNCHANGED <<rlStopped, closes>>
       ELSE /\ closes' = closes + 1
            /\ rlStopped' = TRUE
    /\ stopReturned' = stopReturned + 1
    /\ UNCHANGED <<janitor, tickPending>>
    /\ StopRest

StopAllow == unit = "stop" /\ \E key \in Keys : Allow(key)

StopClock == unit = "stop" /\ RateLimitTick

NextStop ==
    \/ Start
    \/ TickerFire
    \/ JanitorTick
    \/ JanitorCleanup
    \/ JanitorExit
    \/ Stop
    \/ StopAllow
    \/ StopClock

\* The goroutine is scheduled, and the select, which chooses at random among its
\* ready cases, does not ignore the closed stop channel for ever.
SpecStop ==
    /\ InitStop
    /\ [][NextStop]_vars
    /\ WF_vars(JanitorCleanup)
    /\ SF_vars(JanitorExit)

----------------------------------------------------------------------------
(* Properties of Call and the breaker. *)

Active(p) == target[p] # 0
PolicyOf(p) == policy[target[p]]

\* The breaker's window is running: fewer than resetTimeout ticks since the last
\* attempt that ended in a breaker-failure kind.
InOpenWindow(u) ==
    /\ policy[u].breaker
    /\ streak[u] >= policy[u].maxFailures
    /\ now - lastFailEnd[u] < policy[u].resetTimeout

\* C1: once maxFailures consecutive attempts have ended in a breaker-failure kind
\* (timeout, connection, bad_status), a Call that starts before resetTimeout has
\* elapsed since the last failure (taken here with a live context) returns
\* circuit_open and performs no HTTP request.
C1_OpenCircuitRejects ==
    [][\A p \in Callers :
          (/\ Active(p)
           /\ pc[p] = "loop" /\ pc'[p] # "loop"
           /\ attempt[p] = 0
           /\ ~ctxDone[p]
           /\ InOpenWindow(target[p]))
          => (/\ pc'[p] = "done"
              /\ ret'[p].Err.Kind = UpstreamCircuitOpen
              /\ hits'[p] = 0)]_vars

C4_AtMostMaxRetriesPlusOne ==
    \A p \in Callers : Active(p) => hits[p] <= PolicyOf(p).maxRetries + 1

C4_Witness ==
    \E p \in Callers :
        /\ Active(p)
        /\ pc[p] = "done"
        /\ PolicyOf(p).maxRetries >= 1
        /\ hits[p] = PolicyOf(p).maxRetries + 1

----------------------------------------------------------------------------
(* Properties of the dispatcher. *)

\* C2: dispatch returns exactly one result per upstream of the flow, results[i]
\* is the value flow.upstreams[i].Call returned, whatever the completion order,
\* and every upstream was called even when another one failed.
C2_ResultsInDeclarationOrder ==
    dstate = "returned" =>
        /\ Len(returned) = NumUpstreams
        /\ \A i \in 1..NumUpstreams : pc[i] = "done" /\ returned[i] = ret[i]

\* Upstream 1 failed, upstream 2 answered with its own body.
C2_Witness ==
    /\ dstate = "returned"
    /\ returned[1].Err.Kind # "none"
    /\ returned[2].Err.Kind = "none"
    /\ returned[2].Body.s = 2

----------------------------------------------------------------------------
(* Properties of the rate limiter. *)

\* C5 (as stated): for any configured limit and window, at most `limit` Allow(key)
\* calls return true within one fixed window of a key.
C5_AtMostLimitPerWindow ==
    \A k \in Keys : winCount[k] <= limit

\* C5 (amended): within one fixed window of a key at most max(limit, 1) Allow(key)
\* calls return true: the call that creates the bucket is always admitted.
C5_AtMostLimitOrOnePerWindow ==
    \A k \in Keys : winCount[k] <= Max(limit, 1)

\* A key has used up its window and its last call was denied.
C5_Witness ==
    \E k \in Keys :
        /\ limit >= 2
        /\ winCount[k] = limit
        /\ allowed = [key |-> k, ok |-> FALSE]

----------------------------------------------------------------------------
(* Properties of the aggregator and of the status the Router answers. *)

\* The request was dispatched and aggregate was called.
Reached == srv = "done" /\ path \in {"ok", "response_plugin_error"}

\* aggregate returned a value.
Aggregated == Reached /\ ~aggregated.Panic

MultiUpstream ==
    /\ Len(responses) >= 2
    /\ aggregation.Strategy \in {strategyMerge, strategyArray}

\* An upstream failed: it has an error, or under merge its body does not
\* unmarshal into an object.
Failed(r) ==
    \/ r.Err.Kind # "none"
    \/ /\ aggregation.Strategy = strategyMerge
       /\ r.Body.t # "nil"
       /\ ~unmarshalOk(r.Body)

FailureError(r) ==
    IF r.Err.Kind # "none" THEN mapUpstreamError(r.Err) ELSE ClientErrUpstreamMalformed

FirstFailure ==
    CHOOSE i \in 1..Len(responses) :
        Failed(responses[i]) /\ \A j \in 1..(i - 1) : ~Failed(responses[j])

NoDuplicates(errs) ==
    \A i \in 1..Len(errs) : \A j \in 1..Len(errs) : errs[i] = errs[j] => i = j

\* C6: with bestEffort = false and two or more upstreams (merge or array), when
\* some upstream fails aggregate returns Data = null, Partial = false and exactly
\* one error, the mapped error of the first failure in declaration order.
C6_StrictFirstFailure ==
    (/\ Reached
     /\ MultiUpstream
     /\ ~aggregation.BestEffort
     /\ \E i \in 1..Len(responses) : Failed(responses[i]))
    => /\ ~aggregated.Panic
       /\ aggregated.Data = NilData
       /\ ~aggregated.Partial
       /\ aggregated.Errors = <<FailureError(responses[FirstFailure])>>

\* C7: with bestEffort = true and two or more upstreams (merge or array),
\* Partial is true exactly when some upstream succeeded and some upstream
\* failed, and Errors holds no client error twice.
C7_PartialIffMixed ==
    (/\ Reached
     /\ MultiUpstream
     /\ aggregation.BestEffort)
    => /\ ~aggregated.Panic
       /\ aggregated.Partial <=>
            /\ \E i \in 1..Len(responses) : ~Failed(responses[i])
            /\ \E i \in 1..Len(responses) : Failed(responses[i])
       /\ NoDuplicates(aggregated.Errors)

\* C8: every value aggregate returns with errors and Partial = false has null
\* Data (nil, or the JSON text null).
C8_ErrorsWithoutPartialNullData ==
    (/\ Aggregated
     /\ Len(aggregated.Errors) > 0
     /\ ~aggregated.Partial)
    => aggregated.Data.t \in {"nil", "null"}

C10_UpstreamFailureIs502 ==
    (/\ Aggregated
     /\ path = "ok"
     /\ Len(aggregated.Errors) > 0
     /\ ~aggregated.Partial)
    => /\ written.code = 502
       /\ written.env.data = NilData
       /\ written.env.errors = aggregated.Errors

\* The mapping from upstream error kind to client error as the design states it.
DesignClientError(kind) ==
    CASE kind \in {UpstreamTimeout, UpstreamConnection, UpstreamCircuitOpen} ->
            ClientErrUpstreamUnavailable
      [] kind = UpstreamBadStatus -> ClientErrUpstreamError
      [] kind = UpstreamBodyTooLarge -> ClientErrUpstreamBodyTooLarge
      [] OTHER -> ClientErrInternal

\* C11: the client error of a failed upstream is the design's mapping of its error
\* kind: timeout, connection and circuit_open give UPSTREAM_UNAVAILABLE, bad_status
\* UPSTREAM_ERROR, body_too_large UPSTREAM_BODY_TOO_LARGE, any other kind INTERNAL
\* (stated on a single-upstream flow, where the one error reaches the client as is).
C11_MappedClientError ==
    (/\ Reached
     /\ Len(responses) = 1
     /\ responses[1].Err.Kind # "none")
    => aggregated.Errors = <<DesignClientError(responses[1].Err.Kind)>>

\* The bytes of Data are those of body (nil for a nil body).
SameBytes(data, body) ==
    IF body.t = "nil" THEN data = NilData ELSE data.t = "raw" /\ data.b = body

\* C12: for a flow with one upstream, a response without error and with body B
\* gives Data = B byte for byte, no errors and Partial = false, whatever the
\* strategy, conflict policy and status; a response with an error gives null
\* Data and the single mapped client error.
C12_SingleRoundTrip ==
    (Reached /\ Len(responses) = 1) =>
        /\ ~aggregated.Panic
        /\ ~aggregated.Partial
        /\ responses[1].Err.Kind = "none" =>
              /\ SameBytes(aggregated.Data, responses[1].Body)
              /\ aggregated.Errors = <<>>
        /\ responses[1].Err.Kind # "none" =>
              /\ aggregated.Data = NilData
              /\ aggregated.Errors = <<mapUpstreamError(responses[1].Err)>>

\* A 404 with an object body went through an array flow untouched, and reached
\* the client as the data of a 200 envelope.
C12_Witness ==
    /\ Reached
    /\ path = "ok"
    /\ Len(responses) = 1
    /\ responses[1].Status = 404
    /\ responses[1].Body.t = "obj"
    /\ aggregation.Strategy = strategyArray
    /\ aggregated.Data = RawData(responses[1].Body)
    /\ written.env.data = RawData(responses[1].Body)

----------------------------------------------------------------------------
(* Properties of the merge and array strategies. *)

\* The upstreams whose object contributes key k: no error, an object body, k in it.
Holders(k) ==
    {i \in 1..Len(responses) :
        /\ responses[i].Err.Kind = "none"
        /\ responses[i].Body.t = "obj"
        /\ responses[i].Body.o[k] # 0}

Lowest(S) == CHOOSE i \in S : \A j \in S : i <= j
Highest(S) == CHOOSE i \in S : \A j \in S : i >= j

AllObjects ==
    \A i \in 1..Len(responses) :
        responses[i].Err.Kind = "none" /\ responses[i].Body.t = "obj"

MergeFlow == Reached /\ Len(responses) >= 2 /\ aggregation.Strategy = strategyMerge

\* C13: merging object bodies under overwrite gives every key the value of the
\* highest-index upstream that has it, under first the value of the lowest-index
\* one; a key only one upstream has keeps that upstream's value (and a key no
\* upstream has is absent).  Values are told apart by the upstream they come from.
C13_OverwriteAndFirst ==
    (/\ MergeFlow
     /\ aggregation.ConflictPolicy \in {conflictPolicyOverwrite, conflictPolicyFirst})
    => /\ AllObjects => (aggregated.Data.t = "obj" /\ aggregated.Errors = <<>>)
       /\ aggregated.Data.t = "obj" =>
             \A k \in Keys :
                aggregated.Data.o[k] =
                    IF Holders(k) = {} THEN 0
                    ELSE IF aggregation.ConflictPolicy = conflictPolicyOverwrite
                    THEN Highest(Holders(k))
                    ELSE Lowest(Holders(k))

\* Three objects under first: x is in all of them and keeps the first value.
C13_Witness ==
    /\ MergeFlow
    /\ AllObjects
    /\ Len(responses) = 3
    /\ aggregation.ConflictPolicy = conflictPolicyFirst
    /\ Holders("x") = {1, 2, 3}
    /\ aggregated.Data.o["x"] = 1

\* C14: under prefer, a key the preferred upstream's object has takes the
\* preferred upstream's value, wherever that upstream is declared; any other key
\* takes the value of the lowest-index upstream that has it.
C14_PreferWins ==
    (/\ MergeFlow
     /\ aggregation.ConflictPolicy = conflictPolicyPrefer)
    => /\ AllObjects => (aggregated.Data.t = "obj" /\ aggregated.Errors = <<>>)
       /\ aggregated.Data.t = "obj" =>
             \A k \in Keys :
                aggregated.Data.o[k] =
                    IF Holders(k) = {} THEN 0
                    ELSE IF aggregation.PreferredUpstream + 1 \in Holders(k)
                    THEN aggregation.PreferredUpstream + 1
                    ELSE Lowest(Holders(k))

\* The preferred upstream is the middle one of three that all have x; y is only
\* in the others and keeps the first value.
C14_Witness ==
    /\ MergeFlow
    /\ AllObjects
    /\ Len(responses) = 3
    /\ aggregation.ConflictPolicy = conflictPolicyPrefer
    /\ aggregation.PreferredUpstream = 1
    /\ Holders("x") = {1, 2, 3}
    /\ Holders("y") = {1, 3}
    /\ aggregated.Data.o = [x |-> 2, y |-> 1]

\* Upstream i brings a key that an earlier upstream's object already brought.
Conflicts(i) == \E k \in Keys : i \in Holders(k) /\ \E j \in Holders(k) : j < i

\* The merge ended before it looked at upstream i: without bestEffort an earlier
\* upstream failed.
EndedBefore(i) ==
    ~aggregation.BestEffort /\ \E j \in 1..(i - 1) : Failed(responses[j])

\* C15: under conflictPolicy error, when the merge meets a key that is already
\* merged it returns null Data, Errors = [VALUE_CONFLICT] and Partial = false,
\* dropping the data and the errors gathered so far; when no key is duplicated
\* the result is that of the overwrite policy.
C15_ConflictError ==
    (/\ MergeFlow
     /\ aggregation.ConflictPolicy = conflictPolicyError)
    => /\ (\E i \in 1..Len(responses) : Conflicts(i) /\ ~EndedBefore(i))
            => aggregated = AggregatedResponse(NilData, <<ClientErrValueConflict>>, FALSE)
       /\ (\A i \in 1..Len(responses) : ~Conflicts(i))
            => aggregated =
                 aggregate(responses,
                           [aggregation EXCEPT !.ConflictPolicy = conflictPolicyOverwrite])

\* A failed upstream, then two objects that both have x, with bestEffort: the
\* gathered error is dropped.
C15_Witness ==
    /\ MergeFlow
    /\ aggregation.ConflictPolicy = conflictPolicyError
    /\ aggregation.BestEffort
    /\ responses[1].Err.Kind = UpstreamTimeout
    /\ Holders("x") = {2, 3}
    /\ aggregated = AggregatedResponse(NilData, <<ClientErrValueConflict>>, FALSE)

ArrayFlow == Reached /\ Len(responses) >= 2 /\ aggregation.Strategy = strategyArray

HasBody(r) == r.Err.Kind = "none" /\ r.Body.t # "nil"

\* The non-nil bodies of the upstreams without error, in declaration order.
RawBodies ==
    LET sel == SelectSeq(responses, HasBody)
    IN [i \in 1..Len(sel) |-> sel[i].Body]

\* C16: for an array flow of two or more upstreams Data is the JSON array of the
\* non-nil raw bodies of the upstreams without error, in declaration order; nil
\* bodies add no element and no error.  Stated where the claim can apply: the
\* aggregation is not ended by a failure (bestEffort, or no upstream failed) and
\* the bodies are valid JSON; the text null is accepted for the array without
\* elements.
C16_ArrayOfRawBodies ==
    (/\ ArrayFlow
     /\ aggregation.BestEffort \/ \A i \in 1..Len(responses) : responses[i].Err.Kind = "none"
     /\ \A i \in 1..Len(responses) : HasBody(responses[i]) => jsonValid(responses[i].Body))
    => /\ ~aggregated.Panic
       /\ aggregated.Data.t \in {"arr", "null"}
       /\ aggregated.Data.a = RawBodies
       /\ (\A i \in 1..Len(responses) : responses[i].Err.Kind = "none")
             => aggregated.Errors = <<>>

MapKeys(pol) == {m[1] : m \in pol.mapStatusCodes}

\* A response of an HTTP exchange that succeeded.
Exchanged(r) == r # NoResp /\ r # EmptyResp /\ r.Err.Kind = "none"

\* C17: a status that has an entry in policy.mapStatusCodes is replaced by the
\* mapped status before anything else looks at it: no response that Call holds
\* after an attempt, returns, or stops retrying on carries a status with an
\* entry in the map (the mapped statuses have no entry themselves).
C17_MappedStatusRecorded ==
    \A p \in Callers : target[p] # 0 =>
        \A r \in {resp[p], ret[p], stopResp[p]} :
            Exchanged(r) => r.Status \notin MapKeys(policy[target[p]])

Untrusted ==
    /\ fwState = "resolved"
    /\ ~isTrustedProxy(trustedProxies, remoteIP(original.RemoteAddr))

ForwardedPart(h) == [n \in ForwardedNames |-> h[n]]

\* The inbound requests that differ from the original in X-Forwarded-* only.
Variants ==
    {[original EXCEPT !.Header = h] :
        h \in {g \in InboundHeaders :
                 \A n \in HeaderNames \ ForwardedNames : g[n] = original.Header[n]}}

\* C18: for a peer in no trusted-proxy CIDR the four outgoing X-Forwarded-*
\* headers carry exactly the locally derived values (peer IP, proto by TLS,
\* original Host, port), and every request that differs from this one only in
\* its inbound X-Forwarded-* headers gets the same four headers, under every
\* forwardHeaders configuration.
C18_UntrustedIgnoresInbound ==
    Untrusted =>
        /\ targetHeader["X-Forwarded-For"] = << <<remoteIP(original.RemoteAddr)>> >>
        /\ targetHeader["X-Forwarded-Proto"] =
              << <<IF original.TLS THEN "https" ELSE "http">> >>
        /\ targetHeader["X-Forwarded-Host"] = << <<original.Host>> >>
        /\ targetHeader["X-Forwarded-Port"] = << <<resolvePort(original)>> >>
        /\ \A v \in Variants :
              LET r == resolveHeaders(forwardHeaders, trustedProxies, v)
              IN ~r.err /\ ForwardedPart(r.Header) = ForwardedPart(targetHeader)

C18_Witness ==
    /\ Untrusted
    /\ forwardHeaders = <<"*">>
    /\ trustedProxies = {"10.0.0.0/8"}
    /\ original.RemoteAddr = "1.2.3.4:12345"
    /\ original.Header["X-Forwarded-For"] = << <<"6.6.6.6">>, <<"7.7.7.7">> >>
    /\ original.Header["X-Forwarded-Proto"] = << <<"https">> >>
    /\ ~original.TLS
    /\ targetHeader["X-Trace"] = << <<"t">> >>
    /\ targetHeader["X-Forwarded-For"] = << <<"1.2.3.4">> >>
    /\ targetHeader["X-Forwarded-Proto"] = << <<"http">> >>

Answered == Reached /\ path = "ok" /\ ~aggregated.Panic

\* The upstreams whose response carries header k.
Carrying(k) == {i \in 1..Len(upHeaders) : upHeaders[i][k] # <<>>}

\* C19: the answer to a request that reached aggregation carries X-Request-ID
\* with the request's id and Content-Type application/json; charset=utf-8,
\* whatever the upstream responses carry; any other header that upstream
\* responses carry has the value of the last upstream carrying it.
C19_FixedHeaders ==
    Answered =>
        /\ outHeader["X-Request-Id"] = requestID
        /\ outHeader["Content-Type"] = "application/json; charset=utf-8"
        /\ Carrying("X-Up") # {} =>
              outHeader["X-Up"] = upHeaders[Highest(Carrying("X-Up"))]["X-Up"][1]

ClientErrors ==
    {ClientErrRateLimitExceeded, ClientErrPayloadTooLarge, ClientErrUpstreamBodyTooLarge,
     ClientErrUpstreamUnavailable, ClientErrUpstreamError, ClientErrUpstreamMalformed,
     ClientErrInternal, ClientErrAborted, ClientErrValueConflict}

InVocabulary(errs) == \A i \in 1..Len(errs) : errs[i] \in ClientErrors

\* C20: every error in every envelope the client receives, from the aggregator
\* or from WriteError, is one of the nine client errors.  The reserved namespace
\* strategy, which answers "not implemented", is set aside.
C20_ClientErrorVocabulary ==
    (srv = "done" /\ path # "none" /\ aggregation.Strategy # strategyNamespace)
    => /\ InVocabulary(written.env.errors)
       /\ Reached => InVocabulary(aggregated.Errors)

InFlight == {p \in Callers : pc[p] \in {"loop", "inflight", "backoff"}}

\* C21: during a dispatch the number of upstream Calls in flight never exceeds
\* the flow's maxParallelUpstreams (the configured value, or 2 * NumCPU when
\* that is below 1), whatever the order in which the Calls complete.
C21_InFlightAtMostMaxParallel ==
    /\ maxParallel >= 1
    /\ Cardinality(InFlight) <= maxParallel

\* One Call runs and another task waits for the only slot.
C21_Witness ==
    /\ dstate = "running"
    /\ maxParallel = 1
    /\ Cardinality(InFlight) = 1
    /\ \E i \in Callers : task[i] = "waiting"

Served == srv = "done" /\ path # "none"

\* A flow fits a request: same method up to case, same path.
Fits(f, r) ==
    /\ f.Path = r.Path
    /\ \E m \in {<<"GET", "get">>, <<"POST", "post">>} :
          {f.Method, r.Method} \subseteq {m[1], m[2]}

FirstFit ==
    LET fit == {i \in 1..Len(flows) : Fits(flows[i], httpReq)}
    IN IF fit = {} THEN 0 ELSE CHOOSE i \in fit : \A j \in fit : i <= j

PluginStages == {i \in 1..Len(stages) : stages[i].s \in {PluginTypeRequest, PluginTypeResponse}}

Rank(st) ==
    CASE st.s = "match" -> 0 [] st.s = "ratelimit" -> 1 [] st.s = PluginTypeRequest -> 2
      [] st.s = "lua" -> 3 [] st.s = "dispatch" -> 4 [] st.s = "aggregate" -> 5
      [] st.s = PluginTypeResponse -> 6 [] OTHER -> 7

Ran(name) == \E i \in 1..Len(stages) : stages[i].s = name

PluginsOf(type) ==
    {i \in 1..Len(flows[FirstFit].Plugins) : flows[FirstFit].Plugins[i].Type = type}

RanOf(type) == {stages[i].i : i \in {j \in 1..Len(stages) : stages[j].s = type}}

\* C25: for a matched and admitted request the stages run in the order request
\* plugins (as declared), dispatch, aggregation, response plugins (as declared),
\* write; an answered request has run every plugin, and a header set by a
\* response plugin is in the answer; a plugin error ends the request with 500
\* INTERNAL, without the later plugins and, in the request phase, without
\* dispatch and aggregation.
C25_StageOrder ==
    (Served /\ path \notin {"no_match", "rate_limited"} /\ ~aggregated.Panic) =>
        /\ \A i, j \in 1..Len(stages) :
              i < j => /\ Rank(stages[i]) <= Rank(stages[j])
                       /\ Rank(stages[i]) = Rank(stages[j]) => stages[i].i < stages[j].i
        /\ stages[Len(stages)] = Stage("write", 0)
        /\ path = "ok" =>
              /\ RanOf(PluginTypeRequest) = PluginsOf(PluginTypeRequest)
              /\ RanOf(PluginTypeResponse) = PluginsOf(PluginTypeResponse)
              /\ Ran("dispatch") /\ Ran("aggregate")
              /\ written = [code |-> status, env |-> responseBody]
              /\ (\E i \in PluginsOf(PluginTypeResponse) : flows[FirstFit].Plugins[i].Sets)
                     => outHeader["X-Up"] = "plugin"
        /\ path = "request_plugin_error" =>
              /\ written = WriteError(ClientErrInternal, 500)
              /\ ~Ran("dispatch") /\ ~Ran("aggregate") /\ ~Ran(PluginTypeResponse)
              /\ \E f \in PluginsOf(PluginTypeRequest) :
                    RanOf(PluginTypeRequest) = {i \in PluginsOf(PluginTypeRequest) : i <= f}
        /\ path = "response_plugin_error" =>
              /\ written = WriteError(ClientErrInternal, 500)
              /\ Ran("dispatch") /\ Ran("aggregate")
              /\ RanOf(PluginTypeRequest) = PluginsOf(PluginTypeRequest)
              /\ \E f \in PluginsOf(PluginTypeResponse) :
                    RanOf(PluginTypeResponse) = {i \in PluginsOf(PluginTypeResponse) : i <= f}

\* Two request plugins and two response plugins ran around dispatch and
\* aggregation, and the header of the first response plugin reached the client.
C25_Witness ==
    /\ Served /\ path = "ok"
    /\ Len(stages) = 9
    /\ stages[3] = Stage(PluginTypeRequest, 1) /\ stages[4] = Stage(PluginTypeRequest, 3)
    /\ stages[5].s = "dispatch" /\ stages[6].s = "aggregate"
    /\ stages[7] = Stage(PluginTypeResponse, 2) /\ stages[8] = Stage(PluginTypeResponse, 4)
    /\ outHeader["X-Up"] = "plugin"
    /\ written.code = 200

\* C23: with maxResponseBodySize = L > 0 and an answer of status below 500
\* whose body of n bytes is read without failure, call returns body_too_large
\* and no body exactly when n > L, and the whole body without error when
\* n <= L; with L = 0 every length is accepted; with L > 0 at most L + 1 bytes
\* are read.
C23_BodyLimit ==
    (unit = "done" /\ reply.status < 500 /\ ~reply.rf) =>
        LET L == policy[1].maxBody
            n == reply.n
            tooLarge == got.Err.Kind = UpstreamBodyTooLarge
        IN /\ got.Status = reply.status
           /\ tooLarge = (L > 0 /\ n > L)
           /\ tooLarge => got.Body = NilBody
           /\ ~tooLarge => got.Err = NoErr /\ got.Body = BytesBody(1, n)
           /\ L > 0 => bytesRead <= L + 1
           /\ bytesRead <= n

\* A body of exactly L bytes is accepted whole.
C23_Witness ==
    /\ unit = "done"
    /\ policy[1].maxBody = MaxBodyLen + 1
    /\ reply.n = MaxBodyLen + 1 /\ reply.status = 404 /\ ~reply.rf
    /\ got.Err = NoErr
    /\ got.Body.n = MaxBodyLen + 1
    /\ bytesRead = MaxBodyLen + 1

HostSet == 0..(numHosts - 1)

Times(seq, h) == Cardinality({i \in 1..Len(seq) : seq[i] = h})

\* C24: round robin over n >= 2 hosts: every n consecutive selections, made by
\* sequential or concurrent attempts, pick each host exactly once; after k * n
\* selections every host was picked k times, and once their requests are sent
\* every host has received k.
C24_RoundRobinEven ==
    (unit = "ready" /\ numHosts >= 2) =>
        /\ \A i \in 1..(Len(selections) - numHosts + 1) :
              {selections[j] : j \in i..(i + numHosts - 1)} = HostSet
        /\ \A k \in 0..MaxSelections :
              Len(selections) = k * numHosts =>
                  /\ \A h \in HostSet : Times(selections, h) = k
                  /\ (\A p \in Callers : selHost[p] = -1) =>
                        \A h \in HostSet : sentTo[h] = k

\* Two rounds over three hosts, the last requests sent out of order.
C24_Witness ==
    /\ numHosts = 3
    /\ Len(selections) = 6
    /\ \A p \in Callers : selHost[p] = -1
    /\ \A h \in HostSet : sentTo[h] = 2

\* C26: in HalfOpen the first Allow returns true and takes the trial, every later
\* Allow returns false until OnSuccess or OnFailure; OnFailure there gives Open with
\* failures = threshold and lastFailureAt = now; OnSuccess there gives Closed with
\* failures = 0.
C26_HalfOpenTrial ==
    (unit = "ready" /\ lastOp.pre.state = HalfOpen) =>
        /\ lastOp.op = "Allow" =>
              /\ lastOp.ret = (halfOpenAllows = 1)
              /\ circuit.state = HalfOpen
              /\ circuit.halfOpenTrial
        /\ lastOp.op = "OnFailure" =>
              /\ circuit.state = Open
              /\ circuit.failures = circuit.threshold
              /\ circuit.lastFailureAt = lastOp.at
        /\ lastOp.op = "OnSuccess" =>
              /\ circuit.state = Closed
              /\ circuit.failures = 0

\* A second Allow in HalfOpen was just denied, after the first took the trial.
C26_Witness ==
    /\ unit = "ready"
    /\ lastOp.op = "Allow"
    /\ lastOp.pre.state = HalfOpen
    /\ halfOpenAllows = 2
    /\ ~lastOp.ret

\* C29: a Closed breaker always allows; OnSuccess in Closed resets failures to 0, so
\* failures counts the OnFailure calls since the last OnSuccess, and Closed turns
\* Open only by the OnFailure call that completes threshold consecutive failures.
C29_OpensAfterConsecutiveFailures ==
    unit = "ready" =>
        /\ circuit.state = Closed =>
              /\ circuit.failures = run
              /\ run < circuit.threshold
        /\ lastOp.pre.state = Closed =>
              /\ lastOp.op = "Allow" => (lastOp.ret /\ circuit = lastOp.pre)
              /\ lastOp.op = "OnSuccess" =>
                    (circuit.state = Closed /\ circuit.failures = 0)
              /\ circuit.state = Open =>
                    (lastOp.op = "OnFailure" /\ run = circuit.threshold)
              /\ circuit.state # HalfOpen

\* The second of two consecutive failures has just opened a breaker of threshold 2.
C29_Witness ==
    /\ unit = "ready"
    /\ circuit.threshold = 2
    /\ lastOp.op = "OnFailure"
    /\ lastOp.pre.state = Closed
    /\ lastOp.pre.failures = 1
    /\ circuit.state = Open

\* C30: from the Allow that moves Open to HalfOpen until the next OnSuccess or
\* OnFailure, at most one Allow returns true, the moving call included.
C30_SingleProbe ==
    (unit = "ready" /\ circuit.state = HalfOpen) => probes <= 1

C33_FailuresBounds ==
    (unit = "ready" /\ circuit.threshold >= 1) =>
        /\ circuit.state = Closed =>
              (0 <= circuit.failures /\ circuit.failures < circuit.threshold)
        /\ circuit.state \in {Open, HalfOpen} =>
              circuit.failures = circuit.threshold

\* A failed trial has sent a breaker of threshold 2 back to Open.
C33_Witness ==
    /\ unit = "ready"
    /\ circuit.threshold = 2
    /\ lastOp.op = "OnFailure"
    /\ lastOp.pre.state = HalfOpen
    /\ circuit.state = Open
    /\ circuit.failures = 2

\* C32: while the breaker is Open, OnSuccess and OnFailure leave state, failures
\* and lastFailureAt unchanged.
C32_OpenIgnoresReports ==
    (/\ unit = "ready"
     /\ lastOp.pre.state = Open
     /\ lastOp.op \in {"OnSuccess", "OnFailure"})
    => (/\ circuit.state = Open
        /\ circuit.failures = lastOp.pre.failures
        /\ circuit.lastFailureAt = lastOp.pre.lastFailureAt)


\* C31: with several concurrent calls on one breaker, HalfOpen is left only by the
\* report of a call admitted as a half-open trial; a late OnSuccess or OnFailure of
\* a call admitted before the breaker opened never moves it out of HalfOpen.
C31_OnlyTrialResolvesHalfOpen ==
    (/\ unit = "shared"
     /\ lastOp.op \in {"OnSuccess", "OnFailure"}
     /\ lastOp.pre.state = HalfOpen
     /\ lastOp.admitted = Closed)
    => circuit.state = HalfOpen

\* C34: when the breaker has opened during a Call's retry loop, attempts remain and
\* resetTimeout has not elapsed, the Call (its context live) makes no further HTTP
\* attempt and returns circuit_open with no status and no body; the denial consumes
\* no attempt.
C34_OpenedDuringRetries ==
    [][\A p \in Callers :
          (/\ Active(p)
           /\ PolicyOf(p).breaker
           /\ pc[p] = "loop" /\ pc'[p] # "loop"
           /\ attempt[p] >= 1
           /\ LoopCond(attempt[p], PolicyOf(p).maxRetries)
           /\ ~ctxDone[p]
           /\ cb[target[p]].state = Open
           /\ now - cb[target[p]].lastFailureAt < cb[target[p]].resetTimeout)
          => (/\ pc'[p] = "done"
              /\ ret'[p] = UpstreamResponse(0, NilBody,
                                            UpstreamError(UpstreamCircuitOpen, "other"))
              /\ hits'[p] = hits[p]
              /\ attempt'[p] = attempt[p])]_vars

\* A Call was denied after at least one attempt, with retries left.
C34_Witness ==
    \E p \in Callers :
        /\ Active(p)
        /\ pc[p] = "done"
        /\ ret[p].Err.Kind = UpstreamCircuitOpen
        /\ hits[p] >= 1
        /\ attempt[p] >= 1
        /\ attempt[p] <= PolicyOf(p).maxRetries
        /\ ~ctxDone[p]


HostsOf == 0..(numHosts - 1)

Chosen(p) == lc[p].pc \in {"selected", "inflight"}

\* the hosts whose value was minimal among the values the loop read
MinimalRead(reads) ==
    {h \in 0..(Len(reads) - 1) : \A g \in 0..(Len(reads) - 1) : reads[h + 1] <= reads[g + 1]}

\* C35: least_conns over two or more hosts returns the lowest index among the hosts
\* whose counter was minimal when read; with one host, and in mode none, selectHost
\* returns 0.
C35_LeastConnsLowestIndex ==
    unit = "least_conns" =>
        \A p \in Callers : Chosen(p) =>
            IF numHosts >= 2 /\ lbMode = LBModeLeastConns
            THEN /\ Len(lc[p].reads) = numHosts
                 /\ lc[p].host \in MinimalRead(lc[p].reads)
                 /\ \A h \in MinimalRead(lc[p].reads) : lc[p].host <= h
            ELSE lc[p].host = 0

\* A caller picked host 1: host 0 was busy, hosts 1 and 2 tied at the minimum.
C35_Witness ==
    /\ unit = "least_conns"
    /\ \E p \in Callers :
          /\ Chosen(p)
          /\ lc[p].reads = <<1, 0, 0>>
          /\ lc[p].host = 1

InFlightOn(h) == {p \in Callers : lc[p].pc = "inflight" /\ lc[p].host = h}

\* C36: in mode least_conns activeConnections[i] is the number of call() invocations
\* in flight against host i (from their increment to their return, whatever the
\* exit): never negative, and all counters are 0 when no call is in flight.
C36_CountersMatchInFlight ==
    (unit = "least_conns" /\ lbMode = LBModeLeastConns) =>
        /\ \A h \in 0..(MaxHosts - 1) :
              /\ activeConnections[h] >= 0
              /\ activeConnections[h] = Cardinality(InFlightOn(h))
        /\ (\A p \in Callers : lc[p].pc # "inflight") =>
              \A h \in 0..(MaxHosts - 1) : activeConnections[h] = 0

\* Calls have returned, one is in flight on host 1 and another on host 0.
C36_Witness ==
    /\ unit = "least_conns"
    /\ lbMode = LBModeLeastConns
    /\ lcReturned
    /\ activeConnections[0] = 1
    /\ activeConnections[1] = 1

Started == {p \in Callers : lc[p].pc # "idle"}

CeilDiv(k, n) == (k + n - 1) \div n

\* C37: in mode least_conns, when k calls have started on n >= 2 idle hosts and none
\* has returned, no host has more than ceil(k/n) calls in flight.
C37_SelectionAtomicWithIncrement ==
    (/\ unit = "least_conns"
     /\ lbMode = LBModeLeastConns
     /\ numHosts >= 2
     /\ ~lcReturned)
    => \A h \in HostsOf : activeConnections[h] <= CeilDiv(Cardinality(Started), numHosts)

Entries(fqs) == {fqs[i] : i \in 1..Len(fqs)}

\* strings.HasSuffix(entry, "*") and strings.HasPrefix(key, entry without the "*")
MatchesGlob(key, entry) == entry = "utm_*" /\ key \in {"utm_a", "utm_*"}

\* C38: "*" copies the entire original query and ends the processing; an entry with
\* a trailing "*" forwards every original key with that prefix; a literal entry
\* forwards its key only when the original has a non-empty value for it; no other
\* original key reaches the upstream.
C38_QueryForwarding ==
    (unit = "queries" /\ qState = "resolved") =>
        IF "*" \in Entries(forwardQueries)
        THEN targetQuery = origQuery
        ELSE \A k \in QueryKeys :
                (targetQuery[k] # <<>>) <=>
                    \/ \E e \in Entries(forwardQueries) :
                          MatchesGlob(k, e) /\ origQuery[k] # <<>>
                    \/ k \in Entries(forwardQueries) /\ k # "utm_*"
                       /\ queryGet(origQuery, k) # ""

Changed(k) == buckets'[k] # buckets[k]

\* C39: the janitor is unobservable. Under every interleaving of cleanup with Allow,
\* each Allow(key) answers as it would had cleanup never run; cleanup deletes only
\* buckets with now > resetAt and never one whose window is still running; an
\* Allow(k1) never changes the bucket of another key.
C39_JanitorUnobservable ==
    [][/\ \A k \in Keys :
             /\ AllowReturn(buckets[k], now) = AllowReturn(shadow[k], now)
             /\ AllowBucket(buckets[k], now) = AllowBucket(shadow[k], now)
             /\ (Changed(k) /\ ~buckets'[k].present) =>
                   (buckets[k].present /\ now > buckets[k].resetAt)
             /\ (Changed(k) /\ buckets'[k].present) =>
                   (allowed'.key = k /\ buckets'[k] = AllowBucket(buckets[k], now))
        /\ \A k1, k2 \in Keys :
             (Changed(k1) /\ buckets'[k1].present /\ Changed(k2)) => k1 = k2]_vars

\* cleanup has deleted the expired bucket of one key and kept the running window
\* of another, which has admitted two calls.
C39_Witness ==
    \E k1, k2 \in Keys :
        /\ k1 # k2
        /\ ~buckets[k1].present
        /\ shadow[k1].present
        /\ buckets[k2].present
        /\ now <= buckets[k2].resetAt
        /\ buckets[k2].count >= 2

\* the stop channel is closed once, by the first Stop, and every Stop returns nil
StopClosesOnce ==
    unit = "stop" =>
        /\ closes <= 1
        /\ rlStopped <=> closes = 1
        /\ stopReturned >= 1 => closes = 1

\* Allow answers by the limiter's rule, stopped or not
AllowWorksAfterStop ==
    [][(unit = "stop" /\ rlStopped /\ allowed' # allowed)
       => allowed'.ok = AllowReturn(buckets[allowed'.key], now)]_vars

JanitorTerminates == (unit = "stop" /\ rlStopped /\ janitor # "none") ~> (janitor = "exited")

NoCleanupAfterStop ==
    [][(unit = "stop" /\ rlStopped) => ~(janitor = "cleanup" /\ janitor' = "select")]_vars

NoCleanupAfterExit ==
    [][(unit = "stop" /\ janitor = "exited")
       => (janitor' = "exited" /\ \A k \in Keys : Changed(k) => buckets'[k].present)]_vars

\* C40 (as stated): any number of Stop calls close the stop channel exactly once and
\* all return nil; after the first Stop a started janitor eventually terminates and
\* runs no further cleanup; Allow keeps working.
C40_StopIdempotent ==
    /\ []StopClosesOnce
    /\ AllowWorksAfterStop
    /\ JanitorTerminates
    /\ NoCleanupAfterStop

\* C40 (amended): as above, but the janitor runs no cleanup once it has terminated;
\* between the first Stop and its termination it may still run cleanups.
C40_StopIdempotentExitEndsCleanup ==
    /\ []StopClosesOnce
    /\ AllowWorksAfterStop
    /\ JanitorTerminates
    /\ NoCleanupAfterExit

\* Three Stop calls have returned, the channel was closed once, the janitor has
\* exited and a call was admitted.
C40_Witness ==
    /\ unit = "stop"
    /\ stopReturned = MaxCalls
    /\ closes = 1
    /\ janitor = "exited"
    /\ allowed.ok
    /\ \E k \in Keys : buckets[k].present
====
